---------------------------- MODULE Spec2Model ----------------------------
(***************************************************************************)
(* Position tracking of bookmarks (linonon/bookmark-extension).            *)
(*                                                                         *)
(*   BookmarkPositionTracker  src/unnamed/part_001                         *)
(*   BookmarkStorageService   src/src/services/bookmarkStorage.ts          *)
(*   ContentAnchorService     src/src/services/contentAnchorService.ts     *)
(*                                                                         *)
(* Conventions.  A string is a sequence of one-character strings.  An      *)
(* absent lineNumber is 0 and an absent contentAnchor is the empty string  *)
(* (the code tests both with `!x`, which treats them alike; the tracker    *)
(* tests lineNumber !== undefined and never stores 0).  The bookmark       *)
(* collection is an array kept in creation order; it is modelled as a      *)
(* function from the ids present to their records, array order being id    *)
(* order.  workspaceState.get is modelled as returning the persisted       *)
(* value: every reader works on its own snapshot.                          *)
(***************************************************************************)
EXTENDS Integers, Sequences, FiniteSets, TLC

VARIABLES
    storage,          \* workspaceState[WORKSPACE_STORAGE_KEY]: id -> Bookmark
    handlers,         \* onDocumentChanged calls suspended at `await getBookmarks()`
    timers,           \* every setTimeout of debounceBookmarkUpdate, by handle
    debouncedUpdate,  \* Map<filePath, Timeout>; 0 is "no entry"
    disposed,         \* dispose() has run (the change listener is disposed)
    notified,         \* number of onBookmarksUpdated() calls so far
    burst,            \* change events the editor has still to deliver
    history,          \* bookkeeping for the properties; never read by an action guard
    upd,              \* one run of updateBookmarkPositions, edit by edit
    doc,              \* the text document read by the relocation search
    reloc             \* one run of relocateBookmarksInFile

vars == <<storage, handlers, timers, debouncedUpdate, disposed, notified, burst,
          history, upd, doc, reloc>>

-----------------------------------------------------------------------------
(* Bounds *)

\* Lines of the edited document: edits address lines 0..MaxLine-1, bookmarks 1..MaxLine.
MaxLine == 4

Max(a, b) == IF a >= b THEN a ELSE b
Min(a, b) == IF a <= b THEN a ELSE b

Range(s) == {s[i] : i \in 1..Len(s)}

-----------------------------------------------------------------------------
(* Edits: vscode.TextDocumentContentChangeEvent, range.start / range.end / text *)

Columns == {0, 1}

Texts == {<<>>, <<"a">>, <<"\n">>, <<"\n", "a", "\n">>}

Change(sl, sc, el, ec, text) ==
    [startLine |-> sl, startChar |-> sc, endLine |-> el, endChar |-> ec, text |-> text]

\* A range is well formed when its start is not after its end.
Changes ==
    {Change(sl, sc, el, ec, t) :
        sl \in 0..(MaxLine - 1), sc \in Columns, el \in 0..(MaxLine - 1),
        ec \in Columns, t \in Texts}

WellFormed(c) ==
    c.startLine < c.endLine \/ (c.startLine = c.endLine /\ c.startChar <= c.endChar)

PosLeq(l1, c1, l2, c2) == l1 < l2 \/ (l1 = l2 /\ c1 <= c2)

\* The ranges of one change event do not overlap (they address the document as
\* it was before the event).
NonOverlapping(a, b) ==
    \/ PosLeq(a.endLine, a.endChar, b.startLine, b.startChar)
    \/ PosLeq(b.endLine, b.endChar, a.startLine, a.startChar)

\* (change.text.match(/\n/g) || []).length
insertedLines(text) == Cardinality({i \in 1..Len(text) : text[i] = "\n"})

\* change.text.includes('\n')
includesNewline(text) == \E i \in 1..Len(text) : text[i] = "\n"

calculateLineDeltaNoDeletion(change) == insertedLines(change.text)

calculateLineDeltaCountingText(change) ==
    Len(change.text) - (change.endLine - change.startLine)

calculateLineDelta(change) ==
    insertedLines(change.text) - (change.endLine - change.startLine)

-----------------------------------------------------------------------------
(* updateBookmarkPositions *)

RECURSIVE InsertByStartLine(_, _)
\* Insert c into a sequence sorted by descending startLine, after every element
\* that does not compare greater (Array.prototype.sort is stable).
InsertByStartLine(c, s) ==
    IF s = <<>> THEN <<c>>
    ELSE IF Head(s).startLine >= c.startLine
         THEN <<Head(s)>> \o InsertByStartLine(c, Tail(s))
         ELSE <<c>> \o s

RECURSIVE sortedChangesFrom(_, _)
sortedChangesFrom(changes, acc) ==
    IF changes = <<>> THEN acc
    ELSE sortedChangesFrom(Tail(changes), InsertByStartLine(Head(changes), acc))

unsortedChanges(changes) == changes

\* [...changes].sort((a, b) => b.range.start.line - a.range.start.line)
sortedChanges(changes) == sortedChangesFrom(changes, <<>>)

fullLineDeletionHeuristic(change) ==
    change.startChar = 0 /\ (change.endChar = 0 \/ change.endLine > change.startLine)

bookmarkWithinDeletedSpanInclusive(change, bmZero) ==
    bmZero >= change.startLine /\ bmZero <= change.endLine

bookmarkWithinDeletedSpan(change, bmZero) ==
    bmZero >= change.startLine /\ bmZero < change.endLine

ResolveIgnoringPosition(change, bookmarkLine) ==
    [shouldUpdate |-> TRUE, shouldRemove |-> FALSE,
     newLineNumber |-> bookmarkLine + calculateLineDelta(change)]

\* the multi-line branch without the test of the start line
ResolveMovingWholeRange(change, bookmarkLine) ==
    LET lineDelta == calculateLineDelta(change)
        bmZero    == bookmarkLine - 1
        keep      == [shouldUpdate |-> FALSE, shouldRemove |-> FALSE,
                      newLineNumber |-> bookmarkLine]
        move(n)   == [shouldUpdate |-> TRUE, shouldRemove |-> FALSE,
                      newLineNumber |-> n]
        remove    == [shouldUpdate |-> FALSE, shouldRemove |-> TRUE,
                      newLineNumber |-> bookmarkLine]
    IN  IF bmZero > change.endLine
        THEN move(bookmarkLine + lineDelta)
        ELSE IF bmZero >= change.startLine /\ bmZero <= change.endLine
        THEN IF lineDelta > 0 /\ includesNewline(change.text)
             THEN IF change.startLine = change.endLine
                  THEN IF change.startChar = 0
                       THEN move(bookmarkLine + lineDelta)
                       ELSE keep
                  ELSE IF change.startChar = 0
                       THEN move(bookmarkLine + lineDelta)
                       ELSE keep
             ELSE IF lineDelta < 0
             THEN IF fullLineDeletionHeuristic(change)
                     /\ bookmarkWithinDeletedSpan(change, bmZero)
                  THEN remove
                  ELSE move(Max(1, change.startLine + 1))
             ELSE keep
        ELSE keep

\* the fallback of a deletion without the step to 1-based
ResolveFallbackZeroBased(change, bookmarkLine) ==
    LET lineDelta == calculateLineDelta(change)
        bmZero    == bookmarkLine - 1
        keep      == [shouldUpdate |-> FALSE, shouldRemove |-> FALSE,
                      newLineNumber |-> bookmarkLine]
        move(n)   == [shouldUpdate |-> TRUE, shouldRemove |-> FALSE,
                      newLineNumber |-> n]
        remove    == [shouldUpdate |-> FALSE, shouldRemove |-> TRUE,
                      newLineNumber |-> bookmarkLine]
    IN  IF bmZero > change.endLine
        THEN move(bookmarkLine + lineDelta)
        ELSE IF bmZero >= change.startLine /\ bmZero <= change.endLine
        THEN IF lineDelta > 0 /\ includesNewline(change.text)
             THEN IF change.startLine = change.endLine
                  THEN IF change.startChar = 0
                       THEN move(bookmarkLine + lineDelta)
                       ELSE keep
                  ELSE IF change.startChar = 0 /\ change.startLine = bmZero
                       THEN move(bookmarkLine + lineDelta)
                       ELSE keep
             ELSE IF lineDelta < 0
             THEN IF fullLineDeletionHeuristic(change)
                     /\ bookmarkWithinDeletedSpan(change, bmZero)
                  THEN remove
                  ELSE move(Max(1, change.startLine))
             ELSE keep
        ELSE keep

\* The decision of one edit for one bookmark line: shouldUpdate, shouldRemove
\* and newLineNumber as they stand when the branches are left.
Resolve(change, bookmarkLine) ==
    LET lineDelta == calculateLineDelta(change)
        bmZero    == bookmarkLine - 1
        keep      == [shouldUpdate |-> FALSE, shouldRemove |-> FALSE,
                      newLineNumber |-> bookmarkLine]
        move(n)   == [shouldUpdate |-> TRUE, shouldRemove |-> FALSE,
                      newLineNumber |-> n]
        remove    == [shouldUpdate |-> FALSE, shouldRemove |-> TRUE,
                      newLineNumber |-> bookmarkLine]
    IN  IF bmZero > change.endLine
        THEN move(bookmarkLine + lineDelta)
        ELSE IF bmZero >= change.startLine /\ bmZero <= change.endLine
        THEN IF lineDelta > 0 /\ includesNewline(change.text)
             THEN IF change.startLine = change.endLine
                  THEN IF change.startChar = 0
                       THEN move(bookmarkLine + lineDelta)
                       ELSE keep
                  ELSE IF change.startChar = 0 /\ change.startLine = bmZero
                       THEN move(bookmarkLine + lineDelta)
                       ELSE keep
             ELSE IF lineDelta < 0
             THEN IF fullLineDeletionHeuristic(change)
                     /\ bookmarkWithinDeletedSpan(change, bmZero)
                  THEN remove
                  ELSE move(Max(1, change.startLine + 1))
             ELSE keep
        ELSE keep

neverScheduledForRemoval(id, removedBookmarkIds) == FALSE

\* removedBookmarkIds.has(bookmark.id)
alreadyScheduledForRemoval(id, removedBookmarkIds) ==
    id \in Range(removedBookmarkIds)

OutcomeZeroBased(change, bookmark, removedBookmarkIds) ==
    IF alreadyScheduledForRemoval(bookmark.id, removedBookmarkIds) \/ bookmark.lineNumber = 0
    THEN [kind |-> "none", newLineNumber |-> bookmark.lineNumber]
    ELSE LET r == Resolve(change, bookmark.lineNumber)
         IN  IF r.shouldRemove
             THEN [kind |-> "remove", newLineNumber |-> bookmark.lineNumber]
             ELSE IF r.shouldUpdate /\ r.newLineNumber # bookmark.lineNumber
             THEN [kind |-> "update", newLineNumber |-> r.newLineNumber - 1]
             ELSE [kind |-> "none", newLineNumber |-> bookmark.lineNumber]

\* What the forEach body does to one bookmark: "remove", "update" or "none".
Outcome(change, bookmark, removedBookmarkIds) ==
    IF alreadyScheduledForRemoval(bookmark.id, removedBookmarkIds)
    THEN [kind |-> "none", newLineNumber |-> bookmark.lineNumber]
    ELSE IF bookmark.lineNumber = 0
    THEN [kind |-> "none", newLineNumber |-> bookmark.lineNumber]
    ELSE LET r == Resolve(change, bookmark.lineNumber)
         IN  IF r.shouldRemove
             THEN [kind |-> "remove", newLineNumber |-> bookmark.lineNumber]
             ELSE IF r.shouldUpdate /\ r.newLineNumber >= 1
                     /\ r.newLineNumber # bookmark.lineNumber
             THEN [kind |-> "update", newLineNumber |-> r.newLineNumber]
             ELSE [kind |-> "none", newLineNumber |-> bookmark.lineNumber]

RECURSIVE IdsOfKind(_, _, _, _)
\* The ids of the bookmarks from index i on whose outcome is `kind`, in array order.
IdsOfKind(kind, out, bookmarks, i) ==
    IF i > Len(bookmarks) THEN <<>>
    ELSE (IF out[i].kind = kind THEN <<bookmarks[i].id>> ELSE <<>>)
         \o IdsOfKind(kind, out, bookmarks, i + 1)

\* The state of one updateBookmarkPositions call: the bookmark objects (mutated
\* in place), updatedBookmarks (references, here ids, in push order) and
\* removedBookmarkIds (a Set, in insertion order).
UpdaterStart(bookmarks) ==
    [bookmarks |-> bookmarks, updatedBookmarks |-> <<>>, removedBookmarkIds |-> <<>>]

\* One iteration of `for (const change of sortedChanges)`.
applyChange(change, st) ==
    IF calculateLineDelta(change) = 0 THEN st
    ELSE LET out == [i \in 1..Len(st.bookmarks) |->
                        Outcome(change, st.bookmarks[i], st.removedBookmarkIds)]
         IN  [bookmarks |->
                 [i \in 1..Len(st.bookmarks) |->
                     [st.bookmarks[i] EXCEPT !.lineNumber = out[i].newLineNumber]],
              updatedBookmarks |->
                 st.updatedBookmarks \o IdsOfKind("update", out, st.bookmarks, 1),
              removedBookmarkIds |->
                 st.removedBookmarkIds \o IdsOfKind("remove", out, st.bookmarks, 1)]

RECURSIVE applyChanges(_, _)
applyChanges(todo, st) ==
    IF todo = <<>> THEN st ELSE applyChanges(Tail(todo), applyChange(Head(todo), st))

\* The whole call; the result record is {updates, removals} plus the objects.
updateBookmarkPositions(changes, bookmarks) ==
    applyChanges(sortedChanges(changes), UpdaterStart(bookmarks))
-----------------------------------------------------------------------------
(* The bookmark collection *)

Files == {"f1", "f2"}

\* models/bookmark.ts Bookmark, the fields position tracking reads.  An absent
\* trackingEnabled counts as enabled everywhere it is read (`!== false`).
Bookmark(id, filePath, lineNumber, trackingEnabled, contentAnchor) ==
    [id |-> id, filePath |-> filePath, lineNumber |-> lineNumber,
     trackingEnabled |-> trackingEnabled, contentAnchor |-> contentAnchor]

RECURSIVE SortedIds(_)
SortedIds(S) ==
    IF S = {} THEN <<>>
    ELSE LET m == CHOOSE x \in S : \A y \in S : x <= y
         IN  <<m>> \o SortedIds(S \ {m})

\* allBookmarks.filter(pred), in array order
FilterBookmarks(allBookmarks, kept) ==
    LET ids == SortedIds(kept)
    IN  [i \in 1..Len(ids) |-> allBookmarks[ids[i]]]

fileBookmarksIgnoringTracking(allBookmarks, filePath) ==
    FilterBookmarks(allBookmarks,
        {id \in DOMAIN allBookmarks :
            LET b == allBookmarks[id] IN b.filePath = filePath /\ b.lineNumber # 0})

\* onDocumentChanged: the bookmarks handed to updateBookmarkPositions
fileBookmarks(allBookmarks, filePath) ==
    FilterBookmarks(allBookmarks,
        {id \in DOMAIN allBookmarks :
            LET b == allBookmarks[id]
            IN  b.filePath = filePath /\ b.trackingEnabled # FALSE /\ b.lineNumber # 0})

\* BookmarkStorageService.updateBookmark on the array it read: the array to
\* write, or the array unchanged when the id is not in it (nothing is written).
updateBookmark(bookmarks, bookmarkId, lineNumber) ==
    IF bookmarkId \in DOMAIN bookmarks
    THEN [bookmarks EXCEPT ![bookmarkId].lineNumber = lineNumber]
    ELSE bookmarks

\* BookmarkStorageService.removeBookmark on the array it read
removeBookmark(bookmarks, bookmarkId) ==
    [id \in (DOMAIN bookmarks) \ {bookmarkId} |-> bookmarks[id]]

-----------------------------------------------------------------------------
(* BookmarkPositionTracker *)

\* Document-change events delivered in one behaviour (one more under SpecBurst).
MaxEvents == 2

\* The change events the editor delivers here: a line inserted at the top, a
\* whole line deleted, text typed inside a line, an event without changes.
TrackerBatches(filePath) ==
    IF filePath = "f1"
    THEN { <<Change(0, 0, 0, 0, <<"\n">>)>>,
           <<Change(1, 0, 2, 0, <<>>)>>,
           <<Change(1, 1, 1, 1, <<"a">>)>>,
           <<>> }
    ELSE { <<Change(0, 0, 0, 0, <<"\n">>)>> }

InitialStorage ==
    LET bs == << Bookmark(1, "f1", 2, TRUE, <<>>),
                 Bookmark(2, "f1", 3, FALSE, <<>>),
                 Bookmark(3, "f2", 2, TRUE, <<>>),
                 Bookmark(4, "f1", 0, TRUE, <<>>),
                 Bookmark(5, "f1", 4, TRUE, <<>>) >>
    IN  [id \in 1..Len(bs) |-> bs[id]]

NoSnapshot == <<>>

\* The batch a timer callback closes over: the updated bookmark objects (their
\* lineNumber is the one they have when updateBookmarkPositions returns) and
\* the removals.
NewTimer(filePath, result) ==
    LET lineOf(id) ==
            (CHOOSE i \in 1..Len(result.bookmarks) : result.bookmarks[i].id = id)
        updates == [j \in 1..Len(result.updatedBookmarks) |->
                       [id |-> result.updatedBookmarks[j],
                        lineNumber |->
                            result.bookmarks[lineOf(result.updatedBookmarks[j])].lineNumber]]
    IN  [filePath |-> filePath, bookmarks |-> updates,
         removals |-> result.removedBookmarkIds, status |-> "armed",
         k |-> 0, phase |-> "idle", snapshot |-> NoSnapshot, log |-> <<>>]

\* clearTimeout: a timer that has not fired is cancelled, any other is left alone
clearTimeout(ts, handle) ==
    IF ts[handle].status = "armed" THEN [ts EXCEPT ![handle].status = "cancelled"] ELSE ts

ItemsRemovalsFirst(t) ==
    [j \in 1..Len(t.removals) |-> [op |-> "remove", id |-> t.removals[j], lineNumber |-> 0]]
    \o [j \in 1..Len(t.bookmarks) |->
          [op |-> "update", id |-> t.bookmarks[j].id, lineNumber |-> t.bookmarks[j].lineNumber]]

\* The storage calls of one timer callback, in the order of its two loops.
Items(t) ==
    [j \in 1..Len(t.bookmarks) |->
        [op |-> "update", id |-> t.bookmarks[j].id, lineNumber |-> t.bookmarks[j].lineNumber]]
    \o [j \in 1..Len(t.removals) |-> [op |-> "remove", id |-> t.removals[j], lineNumber |-> 0]]

\* The net line shift of a change event for a line all of whose edits lie
\* strictly above it.
RECURSIVE SumLineDelta(_)
SumLineDelta(changes) ==
    IF changes = <<>> THEN 0
    ELSE calculateLineDelta(Head(changes)) + SumLineDelta(Tail(changes))

StrictlyAbove(changes, lineNumber) ==
    \A i \in 1..Len(changes) : changes[i].endLine < lineNumber - 1

Idle == [pc |-> "idle"]

InitTracker(events) ==
    /\ burst = events
    /\ storage = InitialStorage
    /\ handlers = <<>>
    /\ timers = <<>>
    /\ debouncedUpdate = [f \in Files |-> 0]
    /\ disposed = FALSE
    /\ notified = 0
    /\ history = [trueLine |-> [id \in DOMAIN InitialStorage |-> InitialStorage[id].lineNumber],
                  aboveOnly |-> [id \in DOMAIN InitialStorage |-> TRUE],
                  superseded |-> {},
                  failed |-> FALSE,
                  skipped |-> FALSE]

Init ==
    /\ InitTracker(MaxEvents)
    /\ upd = Idle
    /\ doc = <<>>
    /\ reloc = Idle

\* vscode delivers a change event: onDocumentChanged runs up to its first await.
\* getBookmarks reads workspaceState before it suspends; what it returns is the
\* collection as last written by workspaceState.update (the line numbers a
\* handler assigns to the objects it read reach storage only through a commit).
DocumentChanged(filePath, changes) ==
    /\ ~disposed
    /\ burst > 0
    /\ burst' = burst - 1
    /\ handlers' = IF Len(changes) = 0
                   THEN handlers
                   ELSE Append(handlers, [filePath |-> filePath, changes |-> changes,
                                          allBookmarks |-> storage])
    /\ history' =
         [history EXCEPT
            !.trueLine = [id \in DOMAIN @ |->
                IF InitialStorage[id].filePath = filePath /\ history.aboveOnly[id]
                   /\ StrictlyAbove(changes, @[id])
                THEN @[id] + SumLineDelta(changes) ELSE @[id]],
            !.aboveOnly = [id \in DOMAIN @ |->
                IF InitialStorage[id].filePath = filePath
                THEN @[id] /\ StrictlyAbove(changes, history.trueLine[id])
                ELSE @[id]]]
    /\ UNCHANGED <<storage, timers, debouncedUpdate, disposed, notified, upd, doc, reloc>>

\* debounceBookmarkUpdate(filePath, bookmarks, removals)
\* scheduling a batch cancels the pending timeout of every file
debounceBookmarkUpdateClearingAll(filePath, result) ==
    LET cleared == [t \in 1..Len(timers) |->
                       IF t \in {debouncedUpdate[f] : f \in Files}
                       THEN clearTimeout(timers, t)[t] ELSE timers[t]]
    IN  /\ timers' = Append(cleared, NewTimer(filePath, result))
        /\ debouncedUpdate' = [debouncedUpdate EXCEPT ![filePath] = Len(timers) + 1]
        /\ history' = [history EXCEPT !.superseded = @ \cup
                          {t \in 1..Len(timers) :
                              timers[t].filePath = filePath /\ timers[t].status = "armed"}]

debounceBookmarkUpdate(filePath, result) ==
    LET existingTimeout == debouncedUpdate[filePath]
        cleared == IF existingTimeout # 0 THEN clearTimeout(timers, existingTimeout)
                   ELSE timers
    IN  /\ timers' = Append(cleared, NewTimer(filePath, result))
        /\ debouncedUpdate' = [debouncedUpdate EXCEPT ![filePath] = Len(timers) + 1]
        /\ history' = [history EXCEPT !.superseded = @ \cup
                          {t \in 1..Len(timers) :
                              timers[t].filePath = filePath /\ timers[t].status = "armed"}]

\* getBookmarks has resolved: the rest of onDocumentChanged runs to its end.
ResumeHandler(i) ==
    /\ i \in 1..Len(handlers)
    /\ LET h == handlers[i]
           fb == fileBookmarks(h.allBookmarks, h.filePath)
           result == updateBookmarkPositions(h.changes, fb)
       IN  /\ handlers' = [j \in 1..(Len(handlers) - 1) |->
                              IF j < i THEN handlers[j] ELSE handlers[j + 1]]
           /\ IF Len(fb) # 0
                 /\ (Len(result.updatedBookmarks) > 0 \/ Len(result.removedBookmarkIds) > 0)
              THEN debounceBookmarkUpdate(h.filePath, result)
              ELSE /\ UNCHANGED <<timers, debouncedUpdate>>
                   /\ history' = [history EXCEPT !.skipped =
                                     @ \/ \A j \in 1..Len(h.changes) :
                                              calculateLineDelta(h.changes[j]) = 0]
    /\ UNCHANGED <<storage, disposed, notified, burst, upd, doc, reloc>>

\* The timeout elapses: the callback starts and its first storage call reads
\* the collection before it suspends.
TimerFires(t) ==
    /\ t \in 1..Len(timers)
    /\ timers[t].status = "armed"
    /\ timers' = [timers EXCEPT ![t].status = "running", ![t].k = 1,
                                ![t].phase = "read", ![t].snapshot = storage]
    /\ UNCHANGED <<storage, handlers, debouncedUpdate, disposed, notified, burst,
                   history, upd, doc, reloc>>

\* updateBookmark / removeBookmark resumes after getBookmarks and writes the
\* array it read, changed, with workspaceState.update.
CommitWrite(t) ==
    /\ t \in 1..Len(timers)
    /\ timers[t].status = "running"
    /\ timers[t].phase = "read"
    /\ LET item == Items(timers[t])[timers[t].k]
       IN  /\ storage' = IF item.op = "update"
                         THEN IF item.id \in DOMAIN timers[t].snapshot
                              THEN updateBookmark(timers[t].snapshot, item.id, item.lineNumber)
                              ELSE storage
                         ELSE removeBookmark(timers[t].snapshot, item.id)
           /\ timers' = [timers EXCEPT ![t].phase = "written",
                                       ![t].snapshot = NoSnapshot,
                                       ![t].log = Append(@, <<item.op, item.id>>)]
    /\ UNCHANGED <<handlers, debouncedUpdate, disposed, notified, burst, history, upd,
                   doc, reloc>>

CommitWriteFailsAndGoesOn(t) ==
    /\ t \in 1..Len(timers)
    /\ timers[t].status = "running"
    /\ timers[t].phase = "read"
    /\ ~history.failed
    /\ timers' = [timers EXCEPT ![t].phase = "written", ![t].snapshot = NoSnapshot]
    /\ history' = [history EXCEPT !.failed = TRUE]
    /\ UNCHANGED <<storage, handlers, debouncedUpdate, disposed, notified, burst, upd,
                   doc, reloc>>

\* workspaceState.update rejects (at most once in a behaviour): the callback's
\* catch logs and the callback ends.
CommitWriteFails(t) ==
    /\ t \in 1..Len(timers)
    /\ timers[t].status = "running"
    /\ timers[t].phase = "read"
    /\ ~history.failed
    /\ LET item == Items(timers[t])[timers[t].k]
       IN  item.op = "remove" \/ item.id \in DOMAIN timers[t].snapshot
    /\ timers' = [timers EXCEPT ![t].status = "failed", ![t].phase = "idle",
                                ![t].snapshot = NoSnapshot]
    /\ history' = [history EXCEPT !.failed = TRUE]
    /\ UNCHANGED <<storage, handlers, debouncedUpdate, disposed, notified, burst, upd,
                   doc, reloc>>

\* the callback ends without debouncedUpdate.delete(filePath)
CommitNextKeepingEntry(t) ==
    /\ t \in 1..Len(timers)
    /\ timers[t].status = "running"
    /\ timers[t].phase = "written"
    /\ IF timers[t].k < Len(Items(timers[t]))
       THEN /\ timers' = [timers EXCEPT ![t].k = @ + 1, ![t].phase = "read",
                                        ![t].snapshot = storage]
            /\ UNCHANGED <<debouncedUpdate, notified>>
       ELSE /\ notified' = notified + 1
            /\ debouncedUpdate' = debouncedUpdate
            /\ timers' = [timers EXCEPT ![t].status = "done", ![t].phase = "idle",
                                        ![t].log = Append(@, <<"notify", 0>>)]
    /\ UNCHANGED <<storage, handlers, disposed, burst, history, upd, doc, reloc>>

\* The awaited storage call returns: the next one starts (and reads), or the
\* loops are over: notify, then debouncedUpdate.delete(filePath).
CommitNext(t) ==
    /\ t \in 1..Len(timers)
    /\ timers[t].status = "running"
    /\ timers[t].phase = "written"
    /\ IF timers[t].k < Len(Items(timers[t]))
       THEN /\ timers' = [timers EXCEPT ![t].k = @ + 1, ![t].phase = "read",
                                        ![t].snapshot = storage]
            /\ UNCHANGED <<debouncedUpdate, notified>>
       ELSE /\ notified' = notified + 1
            /\ debouncedUpdate' = [debouncedUpdate EXCEPT ![timers[t].filePath] = 0]
            /\ timers' = [timers EXCEPT ![t].status = "done", ![t].phase = "idle",
                                        ![t].log = Append(@, <<"notify", 0>>)]
    /\ UNCHANGED <<storage, handlers, disposed, burst, history, upd, doc, reloc>>

RECURSIVE clearAll(_, _)
clearAll(ts, handles) ==
    IF handles = {} THEN ts
    ELSE LET h == CHOOSE x \in handles : TRUE
         IN  clearAll(clearTimeout(ts, h), handles \ {h})

\* dispose(): clearTimeout on every entry of the map, clear the map, dispose the listener
Dispose ==
    /\ ~disposed
    /\ timers' = clearAll(timers, {debouncedUpdate[f] : f \in Files} \ {0})
    /\ debouncedUpdate' = [f \in Files |-> 0]
    /\ disposed' = TRUE
    /\ UNCHANGED <<storage, handlers, notified, burst, history, upd, doc, reloc>>

Next ==
    \/ \E f \in Files : \E changes \in TrackerBatches(f) : DocumentChanged(f, changes)
    \/ \E i \in 1..Len(handlers) : ResumeHandler(i)
    \/ \E t \in 1..Len(timers) : TimerFires(t)
    \/ \E t \in 1..Len(timers) : CommitWrite(t)
    \/ \E t \in 1..Len(timers) : CommitWriteFails(t)
    \/ \E t \in 1..Len(timers) : CommitNext(t)
    \/ Dispose

Spec == Init /\ [][Next]_vars

\* The runs checked for progress are those in which the tracker is not
\* disposed and no storage call fails; their change events are the two edits
\* of f1 that move or remove a bookmark, and the edit of f2.
LiveBatches(filePath) ==
    IF filePath = "f1"
    THEN { <<Change(0, 0, 0, 0, <<"\n">>)>>, <<Change(1, 0, 2, 0, <<>>)>> }
    ELSE { <<Change(0, 0, 0, 0, <<"\n">>)>> }

NextLive ==
    \/ \E f \in Files : \E changes \in LiveBatches(f) : DocumentChanged(f, changes)
    \/ \E i \in 1..Len(handlers) : ResumeHandler(i)
    \/ \E t \in 1..Len(timers) : TimerFires(t)
    \/ \E t \in 1..Len(timers) : CommitWrite(t)
    \/ \E t \in 1..Len(timers) : CommitNext(t)

\* a timeout fires or an awaited storage call of a callback settles
TimerProgress ==
    \E t \in 1..Len(timers) : TimerFires(t) \/ CommitWrite(t) \/ CommitNext(t)

\* The tracker with the least progress the event loop gives: while some armed
\* timeout or some awaited storage call of a callback is outstanding, one of
\* them eventually fires or settles.
SpecLive == Init /\ [][NextLive]_vars /\ WF_vars(TimerProgress)

\* The same tracker under a burst of one more change event.
InitBurst ==
    /\ InitTracker(MaxEvents + 1)
    /\ upd = Idle
    /\ doc = <<>>
    /\ reloc = Idle

SpecBurst == InitBurst /\ [][Next]_vars
-----------------------------------------------------------------------------
(* updateBookmarkPositions on its own, one edit of the batch per step *)

\* The batches of one change event: no edit, one edit, two edits that do not overlap.
Batches ==
    LET E == {c \in Changes : WellFormed(c)}
    IN  {<<>>} \cup {<<c>> : c \in E}
        \cup {p \in E \X E : NonOverlapping(p[1], p[2])}

\* Two tracked bookmarks of the edited file, as fileBookmarks hands them over.
BookmarkPairs ==
    {<<Bookmark(1, "f1", l1, TRUE, <<>>), Bookmark(2, "f1", l2, TRUE, <<>>)>> :
        l1 \in 1..MaxLine, l2 \in 1..MaxLine}

\* Scenario A: a bookmark on line 10, two lines inserted at line 3 column 0.
\* Scenario B: a bookmark on line 5, line 5 deleted up to the start of line 6.
\* A replacement: line 1 up to the start of line 2 replaced by three lines,
\* with bookmarks on lines 1 and 2.
ScenarioInputs ==
    { [changes |-> <<Change(2, 0, 2, 0, <<"\n", "\n">>)>>,
       bookmarks |-> <<Bookmark(1, "f1", 10, TRUE, <<>>), Bookmark(2, "f1", 2, TRUE, <<>>)>>],
      [changes |-> <<Change(4, 0, 5, 0, <<>>)>>,
       bookmarks |-> <<Bookmark(1, "f1", 5, TRUE, <<>>), Bookmark(2, "f1", 6, TRUE, <<>>)>>],
      [changes |-> <<Change(0, 0, 1, 0, <<"\n", "\n", "\n">>)>>,
       bookmarks |-> <<Bookmark(1, "f1", 1, TRUE, <<>>), Bookmark(2, "f1", 2, TRUE, <<>>)>>] }

UpdInputs ==
    [changes : Batches, bookmarks : BookmarkPairs] \cup ScenarioInputs

InitUpd ==
    /\ InitTracker(0)
    /\ doc = <<>>
    /\ reloc = Idle
    /\ \E input \in UpdInputs :
          upd = [pc |-> "run", changes |-> input.changes, original |-> input.bookmarks,
                 todo |-> sortedChanges(input.changes),
                 st |-> UpdaterStart(input.bookmarks)]

\* One iteration of the loop over sortedChanges.
UpdStep ==
    /\ upd.pc = "run"
    /\ upd.todo # <<>>
    /\ upd' = [upd EXCEPT !.todo = Tail(@), !.st = applyChange(Head(upd.todo), @)]
    /\ UNCHANGED <<storage, handlers, timers, debouncedUpdate, disposed, notified, burst,
                   history, doc, reloc>>

\* return { updates, removals }
UpdReturn ==
    /\ upd.pc = "run"
    /\ upd.todo = <<>>
    /\ upd' = [upd EXCEPT !.pc = "done"]
    /\ UNCHANGED <<storage, handlers, timers, debouncedUpdate, disposed, notified, burst,
                   history, doc, reloc>>

NextUpd == UpdStep \/ UpdReturn

SpecUpd == InitUpd /\ [][NextUpd]_vars
-----------------------------------------------------------------------------
(* Properties of updateBookmarkPositions (SpecUpd) *)

RemovedIds(st) == Range(st.removedBookmarkIds)
UpdatedIds(st) == Range(st.updatedBookmarks)

\* newlines in insertedText minus (endLine - startLine)
LineDeltaOf(c) ==
    Cardinality({i \in 1..Len(c.text) : c.text[i] = "\n"}) - (c.endLine - c.startLine)

RECURSIVE SumOver(_, _)
\* The sum of LineDeltaOf over the edits of `changes` at the indices J.
SumOver(changes, J) ==
    IF J = {} THEN 0
    ELSE LET j == CHOOSE x \in J : TRUE
         IN  LineDeltaOf(changes[j]) + SumOver(changes, J \ {j})

EditsAbove(changes, bmZero) == {j \in 1..Len(changes) : changes[j].endLine < bmZero}
EditsBelow(changes, bmZero) == {j \in 1..Len(changes) : changes[j].startLine > bmZero}

\* C2: in a batch of pairwise non-overlapping edits, a tracked bookmark whose
\* 0-based line is strictly after the end line of some edits and strictly
\* before the start line of all the others ends on oldLine + the sum of the
\* lineDelta of the edits above it, and is not flagged for removal.
C2_ShiftBySumOfDeltasAbove ==
    upd.pc = "done" =>
        \A i \in 1..Len(upd.original) :
            LET old   == upd.original[i].lineNumber
                above == EditsAbove(upd.changes, old - 1)
                below == EditsBelow(upd.changes, old - 1)
            IN  (above \cup below = 1..Len(upd.changes)) =>
                    /\ upd.st.bookmarks[i].lineNumber = old + SumOver(upd.changes, above)
                    /\ upd.original[i].id \notin RemovedIds(upd.st)

\* C2 witness: a finished batch of two edits, one above a bookmark with a
\* non-zero lineDelta and one below it, and the finished Scenario A.
C2_Witness ==
    /\ upd.pc = "done"
    /\ \/ /\ Len(upd.changes) = 2
          /\ \E i \in 1..2 :
                /\ EditsAbove(upd.changes, upd.original[i].lineNumber - 1) # {}
                /\ EditsBelow(upd.changes, upd.original[i].lineNumber - 1) # {}
                /\ upd.st.bookmarks[i].lineNumber # upd.original[i].lineNumber
       \/ /\ upd.original[1].lineNumber = 10
          /\ upd.st.bookmarks[1].lineNumber = 12

\* The full-line-deletion condition of the claim for edit c and 0-based line L.
FullLineDeletionOf(c, L) ==
    /\ LineDeltaOf(c) < 0
    /\ c.startChar = 0
    /\ (c.endChar = 0 \/ c.endLine - c.startLine >= 1)
    /\ c.startLine <= L
    /\ L < c.endLine

\* C3: an edit with lineDelta < 0 that starts at column 0 and ends at column 0
\* or spans more than one line puts every bookmark (not yet flagged) whose
\* 0-based line L has startLine <= L < endLine in the removals and leaves its
\* line number alone; a bookmark on the edit's range for which the condition
\* fails is not put in the removals by that edit.
C3_FullLineDeletionFlagsRemoval ==
    [][(upd.pc = "run" /\ upd.todo # <<>>) =>
          LET c == Head(upd.todo)
          IN  \A i \in 1..Len(upd.st.bookmarks) :
                LET b == upd.st.bookmarks[i]
                    L == b.lineNumber - 1
                IN  b.id \notin RemovedIds(upd.st) =>
                      /\ FullLineDeletionOf(c, L) =>
                            /\ b.id \in RemovedIds(upd'.st)
                            /\ upd'.st.bookmarks[i].lineNumber = b.lineNumber
                            /\ upd'.st.updatedBookmarks = upd.st.updatedBookmarks
                               \/ b.id \notin
                                    {upd'.st.updatedBookmarks[j] :
                                        j \in (Len(upd.st.updatedBookmarks) + 1)
                                              ..Len(upd'.st.updatedBookmarks)}
                      /\ (c.startLine <= L /\ L <= c.endLine /\ ~FullLineDeletionOf(c, L))
                            => b.id \notin RemovedIds(upd'.st)
    ]_vars

\* C3 witness: an edit has flagged one bookmark for removal and has moved the
\* other, which was on its end line, without flagging it; and Scenario B done.
C3_Witness ==
    \/ /\ upd.pc = "done"
       /\ upd.original[1].lineNumber = 5
       /\ upd.changes = <<Change(4, 0, 5, 0, <<>>)>>
       /\ RemovedIds(upd.st) = {1}
    \/ /\ Len(upd.changes) = 1
       /\ upd.todo = <<>>
       /\ upd.original[2].lineNumber - 1 = upd.changes[1].endLine
       /\ RemovedIds(upd.st) = {1}
       /\ UpdatedIds(upd.st) = {2}

\* C4: no bookmark is both in the updates and in the removals of a batch, and
\* once a bookmark is flagged for removal no later edit of the batch changes
\* its line number.
C4_NeverUpdatedAndRemoved ==
    [][/\ UpdatedIds(upd'.st) \cap RemovedIds(upd'.st) = {}
       /\ \A i \in 1..Len(upd.st.bookmarks) :
             upd.st.bookmarks[i].id \in RemovedIds(upd.st) =>
                 upd'.st.bookmarks[i].lineNumber = upd.st.bookmarks[i].lineNumber
    ]_<<upd>>

\* C4 witness: the second edit of a batch with a non-zero lineDelta lying above
\* a bookmark the first edit flagged has been processed.
C4_Witness ==
    /\ upd.pc = "done"
    /\ Len(upd.changes) = 2
    /\ \E i \in 1..2 :
          LET c2 == sortedChanges(upd.changes)[2]
              c1 == sortedChanges(upd.changes)[1]
          IN  /\ upd.original[i].id \in RemovedIds(upd.st)
              /\ FullLineDeletionOf(c1, upd.original[i].lineNumber - 1)
              /\ LineDeltaOf(c2) # 0
              /\ c2.endLine < upd.original[i].lineNumber - 1
-----------------------------------------------------------------------------
(* Properties of the tracker (Spec, SpecBurst) *)

TimersOf(filePath) == {t \in 1..Len(timers) : timers[t].filePath = filePath}

\* No handler of the file is suspended and none of its timers is armed or
\* running: the edits have stopped and the timer has fired and finished.
Quiescent(filePath) ==
    /\ \A i \in 1..Len(handlers) : handlers[i].filePath # filePath
    /\ \A t \in TimersOf(filePath) : timers[t].status \notin {"armed", "running"}

C5_ReplacedBatchNeverApplied ==
    \A t \in history.superseded : timers[t].status \in {"armed", "cancelled"}

\* C6: every armed timer of a file is the one recorded for the file in
\* debouncedUpdate, so a file never has two armed timers.
C6_ArmedTimerIsTheRecordedOne ==
    \A t \in 1..Len(timers) :
        timers[t].status = "armed" => debouncedUpdate[timers[t].filePath] = t

\* C7: after dispose() no batch is applied: storage is not written and the
\* change notification is not invoked.
C7_NothingAppliedAfterDispose ==
    [][disposed => (storage' = storage /\ notified' = notified)]_vars

\* The storage calls and the notification of a whole commit, from the batch.
ExpectedLog(t) ==
    [j \in 1..Len(t.bookmarks) |-> <<"update", t.bookmarks[j].id>>]
    \o [j \in 1..Len(t.removals) |-> <<"remove", t.removals[j]>>]
    \o << <<"notify", 0>> >>

IsPrefix(s, t) == Len(s) <= Len(t) /\ \A i \in 1..Len(s) : s[i] = t[i]

\* C8: a commit in which no storage call fails issues all updates of its batch,
\* then all removals, then the change notification, once and last; a commit
\* under way has issued a prefix of that; every finished commit notified once.
C8_UpdatesThenRemovalsThenOneNotification ==
    /\ \A t \in 1..Len(timers) :
          /\ timers[t].status = "done" => timers[t].log = ExpectedLog(timers[t])
          /\ timers[t].status \in {"running", "failed"} =>
                /\ IsPrefix(timers[t].log, ExpectedLog(timers[t]))
                /\ Len(timers[t].log) < Len(ExpectedLog(timers[t]))
          /\ timers[t].status \in {"armed", "cancelled"} => timers[t].log = <<>>
    /\ notified = Cardinality({t \in 1..Len(timers) : timers[t].status = "done"})

\* C8 witness: a commit with an update and a removal has finished.
C8_Witness ==
    \E t \in 1..Len(timers) :
        /\ timers[t].status = "done"
        /\ Len(timers[t].bookmarks) >= 1
        /\ Len(timers[t].removals) >= 1
        /\ notified >= 1

\* C10: a bookmark that is tracking-disabled, has no lineNumber or belongs to
\* another file is in no batch of the file (neither updated nor removed), and
\* the stored record of a tracking-disabled or line-less bookmark never changes.
C10_IneligibleBookmarksUntouched ==
    /\ \A t \in 1..Len(timers) :
          \A id \in {timers[t].bookmarks[j].id : j \in 1..Len(timers[t].bookmarks)}
                    \cup Range(timers[t].removals) :
              /\ InitialStorage[id].filePath = timers[t].filePath
              /\ InitialStorage[id].trackingEnabled
              /\ InitialStorage[id].lineNumber # 0
    /\ \A id \in DOMAIN InitialStorage :
          (~InitialStorage[id].trackingEnabled \/ InitialStorage[id].lineNumber = 0)
              => (id \in DOMAIN storage /\ storage[id] = InitialStorage[id])

\* C10 witness: a batch of f1 computed from an edit above the tracking-disabled
\* bookmark 2 has been committed and has moved the tracked bookmark 5.
C10_Witness ==
    \E t \in 1..Len(timers) :
        /\ timers[t].filePath = "f1"
        /\ timers[t].status = "done"
        /\ 5 \in DOMAIN storage
        /\ storage[5].lineNumber # InitialStorage[5].lineNumber
        /\ storage[2] = InitialStorage[2]
        /\ storage[3] = InitialStorage[3]

-----------------------------------------------------------------------------
(* ContentAnchorService *)

\* Lines of the document searched by a relocation (long padded documents apart).
MaxDocLines == 2

searchWindow == 20

anchorLengthDefault == 50

\* the characters /\s/ matches
Whitespace == {" ", "\t", "\n"}

RECURSIVE trimStart(_)
trimStart(s) ==
    IF s # <<>> /\ Head(s) \in Whitespace THEN trimStart(Tail(s)) ELSE s

RECURSIVE trimEnd(_)
trimEnd(s) ==
    IF s # <<>> /\ s[Len(s)] \in Whitespace THEN trimEnd(SubSeq(s, 1, Len(s) - 1)) ELSE s

\* String.prototype.trim
trim(s) == trimEnd(trimStart(s))

\* String.prototype.substring(0, end)
substring(s, end) == SubSeq(s, 1, Min(Max(end, 0), Len(s)))

\* String.prototype.replace(/\s+/g, ' ')
RECURSIVE replaceWhitespaceRuns(_)
replaceWhitespaceRuns(s) ==
    IF s = <<>> THEN <<>>
    ELSE IF Head(s) \in Whitespace
         THEN <<" ">> \o replaceWhitespaceRuns(trimStart(Tail(s)))
         ELSE <<Head(s)>> \o replaceWhitespaceRuns(Tail(s))

\* generateAnchor with the length given or read from the configuration
generateAnchor(lineText, maxLength) ==
    replaceWhitespaceRuns(substring(trim(lineText), maxLength))

\* config.get('positionTracking.anchorLength', 50)
configuredAnchorLength == doc.anchorLength

\* A confidence is the quotient num / den of two naturals, den > 0.
Ratio(n, d) == [num |-> n, den |-> d]

RatioGt(a, b) == a.num * b.den > b.num * a.den

fuzzyThresholdLower == Ratio(3, 4)

\* the confidence a fuzzy match must exceed
fuzzyThreshold == Ratio(4, 5)

\* One row of the Levenshtein matrix from the row above it; a row is the
\* sequence of its cells, column j at index j + 1.
RECURSIVE fillRow(_, _, _, _, _)
fillRow(c1, str2, prev, row, j) ==
    IF j > Len(str2) THEN row
    ELSE LET cell == IF c1 = str2[j]
                     THEN prev[j]
                     ELSE Min(Min(prev[j] + 1, row[j] + 1), prev[j + 1] + 1)
         IN  fillRow(c1, str2, prev, Append(row, cell), j + 1)

RECURSIVE fillMatrix(_, _, _, _)
fillMatrix(str1, str2, prev, i) ==
    IF i > Len(str1) THEN prev
    ELSE fillMatrix(str1, str2, fillRow(str1[i], str2, prev, <<i>>, 1), i + 1)

\* the first row left at zero
levenshteinDistanceZeroFirstRow(str1, str2) ==
    fillMatrix(str1, str2, [j \in 1..(Len(str2) + 1) |-> 0], 1)[Len(str2) + 1]

levenshteinDistance(str1, str2) ==
    fillMatrix(str1, str2, [j \in 1..(Len(str2) + 1) |-> j - 1], 1)[Len(str2) + 1]

\* the distance divided by the length of the first string
calculateSimilarityByFirstLength(str1, str2) ==
    IF Len(str1) = 0 THEN (IF Len(str2) = 0 THEN Ratio(1, 1) ELSE Ratio(0, 1))
    ELSE IF Len(str2) = 0 THEN Ratio(0, 1)
    ELSE Ratio(Len(str1) - levenshteinDistance(str1, str2), Len(str1))

\* an empty first string scores 0 whatever the second is
calculateSimilarityEmptyIsZero(str1, str2) ==
    IF Len(str1) = 0 \/ Len(str2) = 0 THEN Ratio(0, 1)
    ELSE LET maxLength == Max(Len(str1), Len(str2))
         IN  Ratio(maxLength - levenshteinDistance(str1, str2), maxLength)

calculateSimilarity(str1, str2) ==
    IF Len(str1) = 0 THEN (IF Len(str2) = 0 THEN Ratio(1, 1) ELSE Ratio(0, 1))
    ELSE IF Len(str2) = 0 THEN Ratio(0, 1)
    ELSE LET maxLength == Max(Len(str1), Len(str2))
         IN  Ratio(maxLength - levenshteinDistance(str1, str2), maxLength)

getSearchRangeWholeDocument(originalLine, totalLines) ==
    [start |-> 1, end |-> totalLines]

getSearchRange(originalLine, totalLines) ==
    [start |-> Max(1, originalLine - searchWindow),
     end   |-> Min(totalLines, originalLine + searchWindow)]

lineAnchorAt(document, lineNum) ==
    generateAnchor(document.lines[lineNum], configuredAnchorLength)

\* findExactMatch from lineNum on: the first matching line, 0 for null
RECURSIVE findExactMatchFrom(_, _, _, _)
findExactMatchFrom(document, anchor, lineNum, end) ==
    IF lineNum > end THEN 0
    ELSE IF lineNum - 1 >= 0 /\ lineNum - 1 < Len(document.lines)
            /\ lineAnchorAt(document, lineNum) = anchor
         THEN lineNum
         ELSE findExactMatchFrom(document, anchor, lineNum + 1, end)

RECURSIVE findExactMatchLast(_, _, _)
findExactMatchLast(document, anchor, range) ==
    IF range.start > range.end THEN 0
    ELSE IF range.end - 1 >= 0 /\ range.end - 1 < Len(document.lines)
            /\ lineAnchorAt(document, range.end) = anchor
         THEN range.end
         ELSE findExactMatchLast(document, anchor, [range EXCEPT !.end = @ - 1])

findExactMatch(document, anchor, range) ==
    findExactMatchFrom(document, anchor, range.start, range.end)

\* findFuzzyMatch from lineNum on with the best match so far
RECURSIVE findFuzzyMatchFrom(_, _, _, _, _)
findFuzzyMatchFrom(document, anchor, lineNum, end, bestMatch) ==
    IF lineNum > end THEN bestMatch
    ELSE IF lineNum - 1 >= 0 /\ lineNum - 1 < Len(document.lines)
         THEN LET confidence == calculateSimilarity(anchor, lineAnchorAt(document, lineNum))
              IN  findFuzzyMatchFrom(document, anchor, lineNum + 1, end,
                      IF RatioGt(confidence, bestMatch.confidence)
                      THEN [lineNumber |-> lineNum, confidence |-> confidence]
                      ELSE bestMatch)
         ELSE findFuzzyMatchFrom(document, anchor, lineNum + 1, end, bestMatch)

findFuzzyMatch(document, anchor, range) ==
    findFuzzyMatchFrom(document, anchor, range.start, range.end,
                       [lineNumber |-> 0, confidence |-> Ratio(0, 1)])

RelocationResult(success, newLineNumber, confidence, method) ==
    [success |-> success, newLineNumber |-> newLineNumber,
     confidence |-> confidence, method |-> method]

relocationFailed == RelocationResult(FALSE, 0, Ratio(0, 1), "failed")

relocateByAnchorDroppingConfidence(bookmark, document) ==
    IF bookmark.contentAnchor = <<>> \/ bookmark.lineNumber = 0
    THEN relocationFailed
    ELSE LET searchRange == getSearchRange(bookmark.lineNumber, Len(document.lines))
             exactMatch  == findExactMatch(document, bookmark.contentAnchor, searchRange)
             fuzzyMatch  == findFuzzyMatch(document, bookmark.contentAnchor, searchRange)
         IN  IF exactMatch # 0
             THEN RelocationResult(TRUE, exactMatch, Ratio(1, 1), "exact")
             ELSE IF fuzzyMatch.lineNumber # 0 /\ RatioGt(fuzzyMatch.confidence, fuzzyThreshold)
                  THEN RelocationResult(TRUE, fuzzyMatch.lineNumber,
                                        fuzzyMatch.confidence, "fuzzy")
                  ELSE relocationFailed

\* the fuzzy pass is tried before the exact pass
relocateByAnchorFuzzyFirst(bookmark, document) ==
    IF bookmark.contentAnchor = <<>> \/ bookmark.lineNumber = 0
    THEN relocationFailed
    ELSE LET searchRange == getSearchRange(bookmark.lineNumber, Len(document.lines))
             exactMatch  == findExactMatch(document, bookmark.contentAnchor, searchRange)
             fuzzyMatch  == findFuzzyMatch(document, bookmark.contentAnchor, searchRange)
         IN  IF fuzzyMatch.lineNumber # 0 /\ RatioGt(fuzzyMatch.confidence, fuzzyThreshold)
             THEN RelocationResult(TRUE, fuzzyMatch.lineNumber,
                                   fuzzyMatch.confidence, "fuzzy")
             ELSE IF exactMatch # 0
                  THEN RelocationResult(TRUE, exactMatch, Ratio(1, 1), "exact")
                  ELSE RelocationResult(FALSE, 0, fuzzyMatch.confidence, "failed")

\* relocateByAnchor once the document is open
relocateByAnchor(bookmark, document) ==
    IF bookmark.contentAnchor = <<>> \/ bookmark.lineNumber = 0
    THEN relocationFailed
    ELSE LET searchRange == getSearchRange(bookmark.lineNumber, Len(document.lines))
             exactMatch  == findExactMatch(document, bookmark.contentAnchor, searchRange)
             fuzzyMatch  == findFuzzyMatch(document, bookmark.contentAnchor, searchRange)
         IN  IF exactMatch # 0
             THEN RelocationResult(TRUE, exactMatch, Ratio(1, 1), "exact")
             ELSE IF fuzzyMatch.lineNumber # 0 /\ RatioGt(fuzzyMatch.confidence, fuzzyThreshold)
                  THEN RelocationResult(TRUE, fuzzyMatch.lineNumber,
                                        fuzzyMatch.confidence, "fuzzy")
                  ELSE RelocationResult(FALSE, 0, fuzzyMatch.confidence, "failed")

\* the bookmarks relocateBookmarksInFile processes
relocatableBookmarks(allBookmarks, filePath) ==
    FilterBookmarks(allBookmarks,
        {id \in DOMAIN allBookmarks :
            LET b == allBookmarks[id]
            IN  b.filePath = filePath /\ b.contentAnchor # <<>> /\ b.lineNumber # 0})

\* Line texts of the documents searched.
LineTexts ==
    { <<>>,
      <<"a">>,
      <<" ", "a", "\t">>,
      <<"a", " ", "\t", "b">>,
      <<"a", "b", "c", "d", "x">>,
      <<"a", "b", "c", "d", "e", "g">> }

\* n empty lines followed by the line "a"
Padded(n) == [i \in 1..(n + 1) |-> IF i <= n THEN <<>> ELSE <<"a">>]

DocLines ==
    UNION {[1..n -> LineTexts] : n \in 0..MaxDocLines}
    \cup {Padded(searchWindow), Padded(searchWindow + 1)}

AnchorLengths == {anchorLengthDefault, 3}

\* Stored anchors: none, and anchors generateAnchor produces
StoredAnchors ==
    { <<>>,
      <<"a">>,
      <<"a", " ", "b">>,
      <<"a", "b", "c", "d", "e">>,
      <<"a", "b", "c", "d", "e", "f">> }

\* a recorded line whose whole search window lies below every short document
FarLine == searchWindow + MaxDocLines + 1

\* The collections a relocation starts from: bookmark 1 of f1 varies, bookmark
\* 2 of f1 and bookmark 3 of f2 are tracked bookmarks with the anchor "a".
RelocStorages ==
    { [id \in 1..3 |->
          CASE id = 1 -> Bookmark(1, "f1", l, te, anchor)
            [] id = 2 -> Bookmark(2, "f1", 2, TRUE, <<"a">>)
            [] id = 3 -> Bookmark(3, "f2", 1, TRUE, <<"a">>)] :
      l \in (0..MaxDocLines) \cup {FarLine}, te \in BOOLEAN, anchor \in StoredAnchors }

InitReloc ==
    /\ storage \in RelocStorages
    /\ handlers = <<>>
    /\ timers = <<>>
    /\ debouncedUpdate = [f \in Files |-> 0]
    /\ disposed = FALSE
    /\ notified = 0
    /\ burst = 0
    /\ history = [original |-> storage]
    /\ upd = Idle
    /\ doc \in [lines : DocLines, anchorLength : AnchorLengths]
    /\ reloc = Idle

\* relocateBookmarksInFile up to the first openTextDocument: the collection is
\* read and filtered; with nothing to relocate the empty result map is returned.
RelocStart(filePath) ==
    /\ reloc.pc = "idle"
    /\ LET fileBookmarks_ == relocatableBookmarks(storage, filePath)
       IN  reloc' = [pc |-> IF Len(fileBookmarks_) = 0 THEN "done" ELSE "open",
                     filePath |-> filePath, queue |-> fileBookmarks_,
                     results |-> <<>>, pending |-> 0, snapshot |-> NoSnapshot]
    /\ UNCHANGED <<storage, handlers, timers, debouncedUpdate, disposed, notified,
                   burst, history, upd, doc>>

\* results.set(bookmark.id, result); `opened` records whether openTextDocument
\* resolved for this bookmark.
RelocRecord(r, result, opened) ==
    [r EXCEPT !.results = Append(r.results, [id |-> Head(r.queue).id, result |-> result,
                                             opened |-> opened])]

\* the loop goes to its next bookmark, or the results are returned
RelocAdvance(r) ==
    LET rest == Tail(r.queue)
    IN  [r EXCEPT !.queue = rest,
                  !.pc = IF rest = <<>> THEN "done" ELSE "open",
                  !.pending = 0, !.snapshot = NoSnapshot]

RelocLocateApplying ==
    /\ reloc.pc = "open"
    /\ LET bookmark == Head(reloc.queue)
           result   == relocateByAnchor(bookmark, doc)
       IN  /\ reloc' = RelocAdvance(RelocRecord(reloc, result, TRUE))
           /\ storage' = IF result.success /\ result.newLineNumber # 0
                         THEN updateBookmark(storage, bookmark.id, result.newLineNumber)
                         ELSE storage
    /\ UNCHANGED <<handlers, timers, debouncedUpdate, disposed, notified,
                   burst, history, upd, doc>>

\* The document is open: the bookmark at the head of the loop is searched and
\* its result recorded; on success updateBookmark is called and reads storage.
RelocLocate ==
    /\ reloc.pc = "open"
    /\ LET bookmark == Head(reloc.queue)
           result   == relocateByAnchor(bookmark, doc)
           recorded == RelocRecord(reloc, result, TRUE)
       IN  IF result.success /\ result.newLineNumber # 0
           THEN reloc' = [recorded EXCEPT !.pc = "write", !.pending = result,
                                          !.snapshot = storage]
           ELSE reloc' = RelocAdvance(recorded)
    /\ UNCHANGED <<storage, handlers, timers, debouncedUpdate, disposed, notified,
                   burst, history, upd, doc>>

RelocOpenFailsAborting ==
    /\ reloc.pc = "open"
    /\ reloc' = [reloc EXCEPT !.pc = "done", !.pending = 0, !.snapshot = NoSnapshot]
    /\ UNCHANGED <<storage, handlers, timers, debouncedUpdate, disposed, notified,
                   burst, history, upd, doc>>

\* openTextDocument rejects: relocateByAnchor catches and reports a failure
RelocOpenFails ==
    /\ reloc.pc = "open"
    /\ reloc' = RelocAdvance(RelocRecord(reloc, relocationFailed, FALSE))
    /\ UNCHANGED <<storage, handlers, timers, debouncedUpdate, disposed, notified,
                   burst, history, upd, doc>>

\* updateBookmark writes the array it read with the new lineNumber
RelocWrite ==
    /\ reloc.pc = "write"
    /\ storage' = updateBookmark(reloc.snapshot, Head(reloc.queue).id,
                                 reloc.pending.newLineNumber)
    /\ reloc' = RelocAdvance(reloc)
    /\ UNCHANGED <<handlers, timers, debouncedUpdate, disposed, notified,
                   burst, history, upd, doc>>

\* workspaceState.update rejects: the loop is left through the catch and the
\* results recorded so far are returned.
RelocWriteFails ==
    /\ reloc.pc = "write"
    /\ reloc' = [reloc EXCEPT !.pc = "done", !.pending = 0, !.snapshot = NoSnapshot]
    /\ UNCHANGED <<storage, handlers, timers, debouncedUpdate, disposed, notified,
                   burst, history, upd, doc>>

\* relocateByAnchor called on its own with any stored bookmark: a bookmark
\* without contentAnchor or lineNumber is answered before the document is
\* opened; otherwise the document opens and is searched, or the open rejects
\* and the catch answers.  The result is returned to the caller.
RelocateByAnchorAlone(id) ==
    /\ reloc.pc = "idle"
    /\ LET bookmark == storage[id]
           guarded  == bookmark.contentAnchor = <<>> \/ bookmark.lineNumber = 0
       IN  \E opened \in BOOLEAN :
              /\ guarded => ~opened
              /\ reloc' = [pc |-> "returned", filePath |-> bookmark.filePath,
                           queue |-> <<bookmark>>,
                           results |-> << [id |-> id,
                                           result |-> IF opened
                                                      THEN relocateByAnchor(bookmark, doc)
                                                      ELSE relocationFailed,
                                           opened |-> opened] >>,
                           pending |-> 0, snapshot |-> NoSnapshot]
    /\ UNCHANGED <<storage, handlers, timers, debouncedUpdate, disposed, notified,
                   burst, history, upd, doc>>

NextReloc ==
    \/ \E f \in Files : RelocStart(f)
    \/ RelocLocate
    \/ RelocOpenFails
    \/ RelocWrite
    \/ RelocWriteFails
    \/ \E id \in DOMAIN storage : RelocateByAnchorAlone(id)

SpecReloc == InitReloc /\ [][NextReloc]_vars

\* C9: relocateBookmarksInFile never changes the stored lineNumber of a
\* bookmark whose trackingEnabled is false.
C9_RelocationLeavesDisabledBookmarks ==
    \A id \in DOMAIN history.original :
        ~history.original[id].trackingEnabled
            => storage[id].lineNumber = history.original[id].lineNumber

-----------------------------------------------------------------------------
(* Line numbers stay positive *)

\* C11: line numbers that start >= 1 stay >= 1: on the bookmark objects of a
\* running or finished updateBookmarkPositions call, in every batch held by a
\* timer, and in storage (where a bookmark without lineNumber stays without).
C11_LineNumbersStayPositive ==
    /\ upd.pc \in {"run", "done"} =>
          \A i \in 1..Len(upd.st.bookmarks) : upd.st.bookmarks[i].lineNumber >= 1
    /\ \A t \in 1..Len(timers) :
          \A j \in 1..Len(timers[t].bookmarks) : timers[t].bookmarks[j].lineNumber >= 1
    /\ \A id \in DOMAIN storage \cap DOMAIN InitialStorage :
          \/ storage[id].lineNumber >= 1
          \/ storage[id].lineNumber = 0 /\ InitialStorage[id].lineNumber = 0

\* C11 witness: a call has returned in which a deletion reaching up to line 0
\* has moved a bookmark from a lower line to line 1.
C11_Witness ==
    /\ upd.pc = "done"
    /\ \E i \in 1..Len(upd.original) :
          /\ upd.original[i].lineNumber > 1
          /\ upd.st.bookmarks[i].lineNumber = 1
          /\ upd.original[i].id \in UpdatedIds(upd.st)
    /\ \E j \in 1..Len(upd.changes) :
          upd.changes[j].startLine = 0 /\ LineDeltaOf(upd.changes[j]) < 0

-----------------------------------------------------------------------------
(* Bookmarks before the edits *)

\* C12: a tracked bookmark whose 0-based line is strictly less than the start
\* line of every edit of the batch keeps its lineNumber through the whole call
\* and is in neither the updates nor the removals.
C12_BookmarkBeforeAllEditsUntouched ==
    upd.pc \in {"run", "done"} =>
        \A i \in 1..Len(upd.original) :
            (\A j \in 1..Len(upd.changes) :
                 upd.original[i].lineNumber - 1 < upd.changes[j].startLine)
            => /\ upd.st.bookmarks[i].lineNumber = upd.original[i].lineNumber
               /\ upd.original[i].id \notin UpdatedIds(upd.st)
               /\ upd.original[i].id \notin RemovedIds(upd.st)

\* C12 witness: a call has returned that moved one bookmark and left alone the
\* other, which lies before all of its two line-changing edits.
C12_Witness ==
    /\ upd.pc = "done"
    /\ Len(upd.changes) = 2
    /\ \A j \in 1..Len(upd.changes) : LineDeltaOf(upd.changes[j]) # 0
    /\ \E i \in 1..Len(upd.original) :
          /\ \A j \in 1..Len(upd.changes) :
                upd.original[i].lineNumber - 1 < upd.changes[j].startLine
          /\ upd.st.bookmarks[i].lineNumber = upd.original[i].lineNumber
    /\ UpdatedIds(upd.st) # {}

-----------------------------------------------------------------------------
(* Batches without a line change *)

\* every edit of the batch has lineDelta = 0 (an empty batch included)
NoLineChange(changes) == \A j \in 1..Len(changes) : LineDeltaOf(changes[j]) = 0

RemoveAt(s, i) == [j \in 1..(Len(s) - 1) |-> IF j < i THEN s[j] ELSE s[j + 1]]

\* C13: a change event with no edits is dropped on delivery, and a handler
\* whose edits all have lineDelta = 0 computes no update and no removal and
\* leaves every line number as it was; neither schedules or cancels a timer,
\* touches the timer map, writes storage or notifies, however often repeated.
C13_NoLineChangeIsNoOp ==
    [][ /\ \A i \in 1..Len(handlers) :
              NoLineChange(handlers[i].changes) =>
                  LET fb == fileBookmarks(handlers[i].allBookmarks, handlers[i].filePath)
                  IN  updateBookmarkPositions(handlers[i].changes, fb) = UpdaterStart(fb)
        /\ (burst' = burst - 1 /\ handlers' = handlers)
              => UNCHANGED <<storage, timers, debouncedUpdate, notified>>
        /\ \A i \in 1..Len(handlers) :
              (handlers' = RemoveAt(handlers, i) /\ NoLineChange(handlers[i].changes))
              => UNCHANGED <<storage, timers, debouncedUpdate, notified>>
      ]_vars

\* C13 witness: all events of the behaviour have been handled, one of them a
\* non-empty batch without a line change, and no timer was ever created.
C13_Witness ==
    /\ history.skipped
    /\ burst = 0
    /\ handlers = <<>>
    /\ timers = <<>>
    /\ storage = InitialStorage

-----------------------------------------------------------------------------
(* Commits of two files *)

\* storage holds what the batch of timer t asked for
BatchInStorage(t) ==
    /\ \A j \in 1..Len(timers[t].bookmarks) :
          LET b == timers[t].bookmarks[j]
          IN  b.id \in DOMAIN storage /\ storage[b.id].lineNumber = b.lineNumber
    /\ \A j \in 1..Len(timers[t].removals) : timers[t].removals[j] \notin DOMAIN storage

-----------------------------------------------------------------------------
(* A storage call fails during a commit *)

\* C15: a commit in which a storage call failed has issued only the storage
\* calls before the failing one, none after it, and no notification; it is
\* over (the exception goes no further than the callback), and every other
\* commit that finishes, before or after the failure, for the same or another
\* file, has issued its whole batch and its one notification.
C15_FailedCommitAbortsOnlyItsBatch ==
    /\ \A t \in 1..Len(timers) :
          timers[t].status = "failed" =>
              /\ timers[t].k \in 1..Len(Items(timers[t]))
              /\ timers[t].log = SubSeq(ExpectedLog(timers[t]), 1, timers[t].k - 1)
              /\ timers[t].phase = "idle"
    /\ \A t \in 1..Len(timers) :
          timers[t].status = "done" => timers[t].log = ExpectedLog(timers[t])
    /\ notified = Cardinality({t \in 1..Len(timers) : timers[t].status = "done"})
    /\ history.failed <=> \E t \in 1..Len(timers) : timers[t].status = "failed"

\* C15 witness: a commit of f1 failed, and a batch of f1 scheduled after the
\* failure has been committed and has notified.
C15_Witness ==
    \E t1, t2 \in 1..Len(timers) :
        /\ t1 < t2
        /\ timers[t1].filePath = timers[t2].filePath
        /\ timers[t1].status = "failed"
        /\ timers[t2].status = "done"
        /\ BatchInStorage(t2)
        /\ notified = 1

-----------------------------------------------------------------------------
(* Properties of relocateByAnchor (SpecReloc) *)

\* the lines of a document of lineCount lines within 20 lines of line L
WindowLines(L, lineCount) == {n \in 1..lineCount : n >= L - 20 /\ n <= L + 20}

SetMin(S) == CHOOSE x \in S : \A y \in S : x <= y

\* the bookmark a recorded result belongs to, as the relocation read it
RelocatedBookmark(e) == history.original[e.id]

\* the lines of the bookmark's window whose anchor equals the stored anchor
ExactLines(b) ==
    {n \in WindowLines(b.lineNumber, Len(doc.lines)) :
        lineAnchorAt(doc, n) = b.contentAnchor}

\* the results a finished run returns for bookmarks whose document was opened
\* (results are only ever added, so these are all the results ever recorded)
SearchedResults ==
    IF reloc.pc # "done" THEN {}
    ELSE {e \in Range(reloc.results) : e.opened}

\* C16: when some line of the window has an anchor equal to the stored anchor,
\* the result is success, confidence 1, method exact, and newLineNumber is the
\* lowest-numbered such line.
C16_ExactMatchIsLowestLine ==
    \A e \in SearchedResults :
        LET exact == ExactLines(RelocatedBookmark(e))
        IN  exact # {} =>
                e.result = RelocationResult(TRUE, SetMin(exact), Ratio(1, 1), "exact")

\* C16 witness: the line the bookmark is recorded on matches its anchor, a
\* lower line matches too, and the lower line was returned.
C16_Witness ==
    \E e \in SearchedResults :
        LET b == RelocatedBookmark(e)
        IN  /\ b.lineNumber \in ExactLines(b)
            /\ e.result.method = "exact"
            /\ e.result.newLineNumber < b.lineNumber


RatioEq(a, b) == a.num * b.den = b.num * a.den

\* the similarity of the stored anchor of b to the anchor of line n
SimilarityAt(b, n) == calculateSimilarity(b.contentAnchor, lineAnchorAt(doc, n))

\* the lines of the window whose similarity no line of the window exceeds
BestLines(b) ==
    LET W == WindowLines(b.lineNumber, Len(doc.lines))
        s == [n \in 1..Len(doc.lines) |-> IF n \in W THEN SimilarityAt(b, n) ELSE Ratio(0, 1)]
    IN  {n \in W : \A m \in W : ~RatioGt(s[m], s[n])}

\* C17: without an exact match in the window, the result is a fuzzy success
\* exactly when the greatest similarity in the window is strictly above 0.8
\* (so 0.8 itself is rejected); the line returned is then the lowest-numbered
\* line attaining it and the confidence is that similarity.
C17_FuzzyMatchAboveThreshold ==
    \A e \in SearchedResults :
        LET b    == RelocatedBookmark(e)
            best == BestLines(b)
            accepted == best # {} /\ RatioGt(SimilarityAt(b, SetMin(best)), Ratio(4, 5))
        IN  ExactLines(b) = {} =>
                /\ (e.result.success /\ e.result.method = "fuzzy") <=> accepted
                /\ e.result.success <=> accepted
                /\ accepted =>
                      /\ e.result.newLineNumber = SetMin(best)
                      /\ RatioEq(e.result.confidence, SimilarityAt(b, SetMin(best)))

\* C17 witness: two lines of the window tie at the greatest similarity, which
\* is above 0.8 and below 1, and the result is the first of them, fuzzy.
C17_Witness ==
    \E e \in SearchedResults :
        LET b == RelocatedBookmark(e)
        IN  /\ ExactLines(b) = {}
            /\ Cardinality(BestLines(b)) >= 2
            /\ e.result.method = "fuzzy"
            /\ e.result.newLineNumber = SetMin(BestLines(b))
            /\ RatioGt(e.result.confidence, Ratio(4, 5))

\* a bookmark whose best line in the window scores exactly 0.8 was rejected
C17_WitnessAtThreshold ==
    \E e \in SearchedResults :
        LET b == RelocatedBookmark(e)
        IN  /\ ExactLines(b) = {}
            /\ BestLines(b) # {}
            /\ RatioEq(SimilarityAt(b, SetMin(BestLines(b))), Ratio(4, 5))
            /\ ~e.result.success


\* the greatest similarity found in the window of b, 0 when the window is empty
BestSimilarity(b) ==
    IF BestLines(b) = {} THEN Ratio(0, 1) ELSE SimilarityAt(b, SetMin(BestLines(b)))

\* C18: without an exact match and with no line of the window scoring above
\* 0.8 the result is success = false, method failed, no newLineNumber, and its
\* confidence is the greatest similarity found in the window (0 for an empty
\* window or when every line scores 0).
C18_FailedCarriesBestSimilarity ==
    \A e \in SearchedResults :
        LET b == RelocatedBookmark(e)
            best == BestSimilarity(b)
        IN  (ExactLines(b) = {} /\ ~RatioGt(best, Ratio(4, 5))) =>
                /\ ~e.result.success
                /\ e.result.method = "failed"
                /\ e.result.newLineNumber = 0
                /\ RatioEq(e.result.confidence, best)

\* C18 witness: a failed result whose confidence is a similarity above 0.
C18_Witness ==
    \E e \in SearchedResults :
        /\ e.result.method = "failed"
        /\ RatioGt(e.result.confidence, Ratio(0, 1))
        /\ ~RatioGt(e.result.confidence, Ratio(4, 5))
        /\ RatioEq(e.result.confidence, BestSimilarity(RelocatedBookmark(e)))


\* C19: a successful relocation of a bookmark recorded on line L in a document
\* of lineCount lines returns a line n with max(1, L - 20) <= n <=
\* min(lineCount, L + 20), also when a line outside has the stored anchor; and
\* when L - 20 > lineCount the result is failed with confidence 0.
C19_ResultWithinWindow ==
    \A e \in SearchedResults :
        LET L == RelocatedBookmark(e).lineNumber
            lineCount == Len(doc.lines)
        IN  /\ e.result.success =>
                  /\ Max(1, L - 20) <= e.result.newLineNumber
                  /\ e.result.newLineNumber <= Min(lineCount, L + 20)
            /\ L - 20 > lineCount =>
                  /\ ~e.result.success
                  /\ e.result.method = "failed"
                  /\ e.result.newLineNumber = 0
                  /\ RatioEq(e.result.confidence, Ratio(0, 1))

\* C19 witness: a line of the document more than 20 lines after the recorded
\* line has the stored anchor, and the relocation failed.
C19_Witness ==
    \E e \in SearchedResults :
        LET b == RelocatedBookmark(e)
        IN  /\ \E n \in 1..Len(doc.lines) :
                  /\ n > b.lineNumber + 20
                  /\ lineAnchorAt(doc, n) = b.contentAnchor
            /\ ~e.result.success

\* a bookmark recorded more than 20 lines below the end of a document that
\* holds its anchor: failed with confidence 0
C19_WitnessBelowDocument ==
    \E e \in SearchedResults :
        LET b == RelocatedBookmark(e)
        IN  /\ b.lineNumber - 20 > Len(doc.lines)
            /\ \E n \in 1..Len(doc.lines) : lineAnchorAt(doc, n) = b.contentAnchor
            /\ ~e.result.success


\* C20: the call of relocateByAnchor (the step taken when the document opens
\* or fails to open) leaves the stored collection as it was, and the bookmark
\* passed in is, before and after the call, the bookmark as it was read.
C20_RelocateByAnchorChangesNothing ==
    [][ reloc.pc = "open" =>
            /\ storage' = storage
            /\ Head(reloc.queue) = history.original[Head(reloc.queue).id]
            /\ reloc'.pc = "write" => Head(reloc'.queue) = Head(reloc.queue)
      ]_vars

\* C20 witness: relocateByAnchor has returned a success with a new line, the
\* caller has not written yet, and bookmark and storage are as before the call.
C20_Witness ==
    /\ reloc.pc = "write"
    /\ reloc.pending.success
    /\ reloc.pending.newLineNumber # Head(reloc.queue).lineNumber
    /\ Head(reloc.queue) = history.original[Head(reloc.queue).id]
    /\ storage = history.original


-----------------------------------------------------------------------------
(* relocateByAnchor always answers *)

\* C21: relocateByAnchor always returns a result and never throws: for a
\* bookmark without contentAnchor or without lineNumber, and for a document
\* that cannot be opened, the result is success false, confidence 0, method
\* failed; and in relocateBookmarksInFile every call returns a result that is
\* recorded, after which a failed relocation goes on to the next bookmark of
\* the file (or returns when it was the last).
C21_RelocateByAnchorAlwaysAnswers ==
    /\ [](reloc.pc # "idle" =>
            \A i \in 1..Len(reloc.results) :
                LET e == reloc.results[i]
                    b == history.original[e.id]
                IN  (b.contentAnchor = <<>> \/ b.lineNumber = 0 \/ ~e.opened)
                        => e.result = relocationFailed)
    /\ [][ /\ reloc.pc = "open" =>
                /\ Len(reloc'.results) = Len(reloc.results) + 1
                /\ reloc'.results[Len(reloc'.results)].id = Head(reloc.queue).id
                /\ ~reloc'.results[Len(reloc'.results)].result.success =>
                      /\ reloc'.queue = Tail(reloc.queue)
                      /\ reloc'.pc = IF Tail(reloc.queue) = <<>> THEN "done" ELSE "open"
           /\ reloc'.pc = "returned" => Len(reloc'.results) = 1
         ]_vars

\* C21 witness: the document of the first bookmark of the file could not be
\* opened, its result is the failure with confidence 0, and the loop is at
\* its next bookmark.
C21_Witness ==
    /\ reloc.pc = "open"
    /\ Len(reloc.results) = 1
    /\ ~reloc.results[1].opened
    /\ reloc.results[1].result = relocationFailed
    /\ Head(reloc.queue).id # reloc.results[1].id

\* relocateByAnchor called with a bookmark that has a lineNumber but no
\* contentAnchor, and with one that has an anchor but no lineNumber
C21_WitnessNoAnchor ==
    /\ reloc.pc = "returned"
    /\ Head(reloc.queue).contentAnchor = <<>>
    /\ Head(reloc.queue).lineNumber # 0
    /\ reloc.results[1].result = relocationFailed

C21_WitnessNoLineNumber ==
    /\ reloc.pc = "returned"
    /\ Head(reloc.queue).contentAnchor # <<>>
    /\ Head(reloc.queue).lineNumber = 0
    /\ reloc.results[1].result = relocationFailed


-----------------------------------------------------------------------------
(* The batch relocation of a file *)

\* the bookmarks of the relocated file that have a contentAnchor and a
\* lineNumber, as stored when relocateBookmarksInFile was called
EligibleIds ==
    {id \in DOMAIN history.original :
        LET b == history.original[id]
        IN  b.filePath = reloc.filePath /\ b.contentAnchor # <<>> /\ b.lineNumber # 0}

ResultsFor(id) == {i \in 1..Len(reloc.results) : reloc.results[i].id = id}

\* C22: when relocateBookmarksInFile has returned, there is exactly one result
\* for every bookmark of the file that has a contentAnchor and a lineNumber
\* and none for any other, the stored line of every successfully relocated
\* bookmark is its newLineNumber (written by the call itself, no timer being
\* armed), and the stored line of every bookmark whose relocation failed is
\* the line it had.
C22_OneResultEachAndSuccessesPersisted ==
    reloc.pc = "done" =>
        /\ \A id \in DOMAIN history.original :
              Cardinality(ResultsFor(id)) = IF id \in EligibleIds THEN 1 ELSE 0
        /\ timers = <<>>
        /\ \A i \in 1..Len(reloc.results) :
              LET e == reloc.results[i]
              IN  storage[e.id].lineNumber =
                      IF e.result.success THEN e.result.newLineNumber
                      ELSE history.original[e.id].lineNumber


-----------------------------------------------------------------------------
(* calculateSimilarity as a function of two strings *)

MaxStrLen == 3

SimAlphabet == {"a", "b", "c"}

\* every string of at most MaxStrLen characters
SimStrings == UNION {[1..n -> SimAlphabet] : n \in 0..MaxStrLen}

InitSim ==
    /\ storage = <<>>
    /\ handlers = <<>>
    /\ timers = <<>>
    /\ debouncedUpdate = [f \in Files |-> 0]
    /\ disposed = FALSE
    /\ notified = 0
    /\ burst = 0
    /\ history = <<>>
    /\ upd = Idle
    /\ doc \in [str1 : SimStrings, str2 : SimStrings]
    /\ reloc = Idle

\* one call calculateSimilarity(str1, str2); the number returned is kept
SimilarityCall ==
    /\ reloc.pc = "idle"
    /\ reloc' = [pc |-> "similarity",
                 value |-> calculateSimilarity(doc.str1, doc.str2)]
    /\ UNCHANGED <<storage, handlers, timers, debouncedUpdate, disposed, notified,
                   burst, history, upd, doc>>

NextSim == SimilarityCall

SpecSim == InitSim /\ [][NextSim]_vars

\* The Levenshtein distance by its defining recurrence: the fewest
\* single-character insertions, deletions and substitutions turning a into b.
RECURSIVE EditDistance(_, _)
EditDistance(a, b) ==
    IF a = <<>> THEN Len(b)
    ELSE IF b = <<>> THEN Len(a)
    ELSE Min(Min(EditDistance(Tail(a), b) + 1, EditDistance(a, Tail(b)) + 1),
             EditDistance(Tail(a), Tail(b)) + (IF Head(a) = Head(b) THEN 0 ELSE 1))

\* C23: calculateSimilarity(a, b) is (max(|a|,|b|) - d) / max(|a|,|b|) with d
\* the Levenshtein distance of a and b; it is 1 when both are empty and 0
\* when exactly one is; and it lies between 0 and 1.
C23_SimilarityIsNormalisedLevenshtein ==
    reloc.pc = "similarity" =>
        LET a == doc.str1
            b == doc.str2
            m == Max(Len(a), Len(b))
            v == reloc.value
        IN  /\ v.den > 0
            /\ m > 0 => RatioEq(v, Ratio(m - EditDistance(a, b), m))
            /\ (a = <<>> /\ b = <<>>) => RatioEq(v, Ratio(1, 1))
            /\ (a = <<>>) # (b = <<>>) => RatioEq(v, Ratio(0, 1))
            /\ v.num >= 0 /\ v.num <= v.den

\* C23 witness: two different non-empty strings of different lengths that
\* share a character, scored strictly between 0 and 1
C23_Witness ==
    /\ reloc.pc = "similarity"
    /\ Len(doc.str1) > Len(doc.str2) /\ Len(doc.str2) > 1
    /\ EditDistance(doc.str1, doc.str2) = 2
    /\ reloc.value.num > 0 /\ reloc.value.num < reloc.value.den

\* C24: calculateSimilarity(a, b) = calculateSimilarity(b, a)
C24_SimilarityIsSymmetric ==
    reloc.pc = "similarity" =>
        RatioEq(reloc.value, calculateSimilarity(doc.str2, doc.str1))

\* C24 witness: the second string is the first with a character in front
C24_Witness ==
    /\ reloc.pc = "similarity"
    /\ doc.str1 # <<>>
    /\ Len(doc.str2) = Len(doc.str1) + 1
    /\ Tail(doc.str2) = doc.str1
    /\ RatioEq(reloc.value, Ratio(Len(doc.str1), Len(doc.str2)))

\* C25: calculateSimilarity(s, s) = 1 for every string s, the empty one too
C25_SimilarityOfAStringWithItself ==
    (reloc.pc = "similarity" /\ doc.str1 = doc.str2) => RatioEq(reloc.value, Ratio(1, 1))

\* C25 witness: the empty string scored against itself
C25_Witness ==
    /\ reloc.pc = "similarity"
    /\ doc.str1 = <<>> /\ doc.str2 = <<>>
    /\ RatioEq(reloc.value, Ratio(1, 1))

\* a string of MaxStrLen characters scored against itself
C25_WitnessLongest ==
    /\ reloc.pc = "similarity"
    /\ doc.str1 = doc.str2 /\ Len(doc.str1) = MaxStrLen
    /\ RatioEq(reloc.value, Ratio(1, 1))


-----------------------------------------------------------------------------
(* generateAnchor as a function of a line text and a length *)

MaxTextLen == 4

TextAlphabet == {"a", " ", "\t"}

\* every line text of at most MaxTextLen characters
AnchorTexts == UNION {[1..n -> TextAlphabet] : n \in 0..MaxTextLen}

\* the lengths asked for: short ones, one beyond every text, the default
AnchorMaxLengths == (0..(MaxTextLen + 1)) \cup {anchorLengthDefault}

InitAnchor ==
    /\ storage = <<>>
    /\ handlers = <<>>
    /\ timers = <<>>
    /\ debouncedUpdate = [f \in Files |-> 0]
    /\ disposed = FALSE
    /\ notified = 0
    /\ burst = 0
    /\ history = <<>>
    /\ upd = Idle
    /\ doc \in [lineText : AnchorTexts, maxLength : AnchorMaxLengths]
    /\ reloc = Idle

\* one call generateAnchor(lineText, maxLength); the anchor returned is kept
AnchorCall ==
    /\ reloc.pc = "idle"
    /\ reloc' = [pc |-> "anchor", value |-> generateAnchor(doc.lineText, doc.maxLength)]
    /\ UNCHANGED <<storage, handlers, timers, debouncedUpdate, disposed, notified,
                   burst, history, upd, doc>>

\* generateAnchor called again on the anchor it returned, with the same length
AnchorAgain ==
    /\ reloc.pc = "anchor"
    /\ reloc' = [pc |-> "reanchored", first |-> reloc.value,
                 value |-> generateAnchor(reloc.value, doc.maxLength)]
    /\ UNCHANGED <<storage, handlers, timers, debouncedUpdate, disposed, notified,
                   burst, history, upd, doc>>

NextAnchor ==
    \/ AnchorCall
    \/ AnchorAgain

SpecAnchor == InitAnchor /\ [][NextAnchor]_vars

\* Reading a text left to right: whitespace before the first other character
\* is dropped, a run of whitespace between two other characters becomes one
\* space, whitespace after the last other character is dropped.
RECURSIVE CollapsedFrom(_, _, _)
CollapsedFrom(s, i, pendingSpace) ==
    IF i > Len(s) THEN <<>>
    ELSE IF s[i] \in Whitespace
         THEN CollapsedFrom(s, i + 1, TRUE)
         ELSE (IF pendingSpace THEN <<" ">> ELSE <<>>) \o <<s[i]>>
                  \o CollapsedFrom(s, i + 1, FALSE)

RECURSIVE FirstOther(_, _)
FirstOther(s, i) ==
    IF i > Len(s) \/ s[i] \notin Whitespace THEN i ELSE FirstOther(s, i + 1)

\* the text trimmed and with every inner whitespace run collapsed
TrimmedAndCollapsed(s) == CollapsedFrom(s, FirstOther(s, 1), FALSE)

Truncated(s, n) == [i \in 1..(IF Len(s) < n THEN Len(s) ELSE n) |-> s[i]]

\* C26: generateAnchor(lineText, maxLength) is the text trimmed, every inner
\* whitespace run collapsed to one space, and only then cut to maxLength
\* characters.
C26_AnchorIsTrimCollapseTruncate ==
    reloc.pc = "anchor" =>
        reloc.value = Truncated(TrimmedAndCollapsed(doc.lineText), doc.maxLength)

\* C27: generateAnchor applied to an anchor it returned, with the same
\* maxLength, returns that anchor.
C27_AnchorOfAnAnchorIsTheAnchor ==
    reloc.pc = "reanchored" => reloc.value = reloc.first


-----------------------------------------------------------------------------
(* CategoryColorService: the colour of a category path *)

\* enum CategoryColor
CategoryColor == {"blue", "green", "red", "purple", "orange", "yellow", "pink", "gray"}

DEFAULT_COLOR == "blue"

\* a categoryPath that is null (no category path is spelled like this)
null == "(null)"

\* Names every plain object inherits from Object.prototype.  Of these the
\* model keeps two: "constructor", which reads as a function unless the object
\* has a property of its own by that name, and "__proto__", an accessor that
\* reads as Object.prototype, ignores the assignment of a string and survives
\* delete.
ObjectPrototypeKeys == {"constructor", "__proto__"}

\* the paths that can become properties of the mapping object itself
StorablePaths == {"work", "work/api", "constructor"}

CategoryPaths == {null, ""} \cup StorablePaths \cup ObjectPrototypeKeys

\* the value of an inherited property: an object or function, never a colour
Inherited(key) ==
    IF key = "constructor" THEN "[Function: Object]" ELSE "[Object: null prototype] {}"

\* the value of a property the object neither has nor inherits
undefined == "(undefined)"

\* colorMappings[categoryPath]
PropertyGet(colorMappings, categoryPath) ==
    IF categoryPath \in DOMAIN colorMappings THEN colorMappings[categoryPath]
    ELSE IF categoryPath \in ObjectPrototypeKeys THEN Inherited(categoryPath)
    ELSE undefined

\* colorMappings[categoryPath] = color
PropertySet(colorMappings, categoryPath, color) ==
    IF categoryPath = "__proto__" THEN colorMappings
    ELSE [p \in DOMAIN colorMappings \cup {categoryPath} |->
             IF p = categoryPath THEN color ELSE colorMappings[p]]

\* delete colorMappings[categoryPath]
PropertyDelete(colorMappings, categoryPath) ==
    [p \in DOMAIN colorMappings \ {categoryPath} |-> colorMappings[p]]

getCategoryColor(colorMappings, categoryPath) ==
    IF categoryPath = null \/ categoryPath = ""
    THEN DEFAULT_COLOR
    ELSE LET stored == PropertyGet(colorMappings, categoryPath)
         IN  IF stored # undefined THEN stored ELSE DEFAULT_COLOR

\* every mapping object that can be stored
ColorMappings == UNION {[D -> CategoryColor] : D \in SUBSET StorablePaths}

\* storage holds what workspaceState keeps under the key of the colours;
\* history.before is what it held when the last call was made
InitColor ==
    /\ storage \in ColorMappings
    /\ handlers = <<>>
    /\ timers = <<>>
    /\ debouncedUpdate = [f \in Files |-> 0]
    /\ disposed = FALSE
    /\ notified = 0
    /\ burst = 0
    /\ history = [before |-> storage]
    /\ upd = Idle
    /\ doc = <<>>
    /\ reloc = Idle

Returned(op, categoryPath, value) ==
    [pc |-> "returned", op |-> op, path |-> categoryPath, value |-> value]

GetCategoryColorCall(categoryPath) ==
    /\ reloc' = Returned("getCategoryColor", categoryPath,
                         getCategoryColor(storage, categoryPath))
    /\ history' = [before |-> storage]
    /\ UNCHANGED <<storage, handlers, timers, debouncedUpdate, disposed, notified,
                   burst, upd, doc>>

\* setCategoryColor: refused for the root; otherwise the mappings are read,
\* changed and saved, and the save resolves or rejects
SetCategoryColorCall(categoryPath, color) ==
    /\ reloc' = Returned("setCategoryColor", categoryPath, undefined)
    /\ IF categoryPath = null \/ categoryPath = ""
       THEN storage' = storage
       ELSE \E saved \in BOOLEAN :
               storage' = IF saved THEN PropertySet(storage, categoryPath, color)
                          ELSE storage
    /\ history' = [before |-> storage]
    /\ UNCHANGED <<handlers, timers, debouncedUpdate, disposed, notified,
                   burst, upd, doc>>

ResetCategoryColorCall(categoryPath) ==
    /\ reloc' = Returned("resetCategoryColor", categoryPath, undefined)
    /\ IF categoryPath = null \/ categoryPath = ""
       THEN storage' = storage
       ELSE \E saved \in BOOLEAN :
               storage' = IF saved THEN PropertyDelete(storage, categoryPath)
                          ELSE storage
    /\ history' = [before |-> storage]
    /\ UNCHANGED <<handlers, timers, debouncedUpdate, disposed, notified,
                   burst, upd, doc>>

NextColor ==
    \/ \E p \in CategoryPaths : GetCategoryColorCall(p)
    \/ \E p \in CategoryPaths, c \in CategoryColor : SetCategoryColorCall(p, c)
    \/ \E p \in CategoryPaths : ResetCategoryColorCall(p)

SpecColor == InitColor /\ [][NextColor]_vars

\* C28: getCategoryColor returns DEFAULT_COLOR for a null or empty path
\* whatever is stored, and for any other path the stored mapping when there
\* is one and DEFAULT_COLOR otherwise; setCategoryColor and
\* resetCategoryColor on a null or empty path leave the stored mappings as
\* they were.
C28_ColourOfAPath ==
    /\ reloc.pc = "returned" /\ reloc.op = "getCategoryColor" =>
            reloc.value = IF reloc.path \in {null, ""} THEN DEFAULT_COLOR
                          ELSE IF reloc.path \in DOMAIN storage THEN storage[reloc.path]
                          ELSE DEFAULT_COLOR
    /\ (/\ reloc.pc = "returned"
        /\ reloc.op \in {"setCategoryColor", "resetCategoryColor"}
        /\ reloc.path \in {null, ""}) => storage = history.before


-----------------------------------------------------------------------------
(* Edits on the bookmark's own lines *)

\* C29: an edit with lineDelta > 0 whose text contains a line break, and a
\* bookmark (not flagged for removal) whose 0-based line L lies within
\* startLine..endLine: when the edit starts at column 0 and startLine = L
\* (for a single-line edit: when it starts at column 0) the bookmark is moved
\* to oldLine + lineDelta and emitted as an update; in every other case its
\* line stays and this edit emits nothing for it.
C29_LineBreakInsertedOnTheBookmarkRange ==
    [][(upd.pc = "run" /\ upd.todo # <<>>) =>
          LET c       == Head(upd.todo)
              emitted == {upd'.st.updatedBookmarks[j] :
                             j \in (Len(upd.st.updatedBookmarks) + 1)
                                   ..Len(upd'.st.updatedBookmarks)}
          IN  \A i \in 1..Len(upd.st.bookmarks) :
                LET b == upd.st.bookmarks[i]
                    L == b.lineNumber - 1
                IN  (/\ b.id \notin RemovedIds(upd.st)
                     /\ LineDeltaOf(c) > 0
                     /\ \E k \in 1..Len(c.text) : c.text[k] = "\n"
                     /\ c.startLine <= L /\ L <= c.endLine) =>
                        /\ b.id \notin RemovedIds(upd'.st)
                        /\ IF c.startChar = 0 /\ c.startLine = L
                           THEN /\ upd'.st.bookmarks[i].lineNumber
                                      = b.lineNumber + LineDeltaOf(c)
                                /\ b.id \in emitted
                           ELSE /\ upd'.st.bookmarks[i].lineNumber = b.lineNumber
                                /\ b.id \notin emitted
    ]_vars

\* C29 witness: one edit spanning two lines from column 0 with more line
\* breaks than it replaces has been applied; the bookmark on its start line
\* has moved down and the bookmark on its end line has stayed.
C29_Witness ==
    /\ upd.pc = "run" /\ upd.todo = <<>>
    /\ Len(upd.changes) = 1
    /\ LET c == upd.changes[1]
       IN  /\ LineDeltaOf(c) > 0
           /\ c.startChar = 0
           /\ c.endLine = c.startLine + 1
           /\ upd.original[1].lineNumber - 1 = c.startLine
           /\ upd.original[2].lineNumber - 1 = c.endLine
           /\ upd.st.bookmarks[1].lineNumber = upd.original[1].lineNumber + LineDeltaOf(c)
           /\ upd.st.bookmarks[2].lineNumber = upd.original[2].lineNumber
           /\ upd.st.updatedBookmarks = <<1>>

\* a single-line edit that breaks the bookmark's line after column 0: the
\* bookmark stays
C29_WitnessMidLine ==
    /\ upd.pc = "run" /\ upd.todo = <<>>
    /\ Len(upd.changes) = 1
    /\ LET c == upd.changes[1]
       IN  /\ LineDeltaOf(c) > 0
           /\ c.startLine = c.endLine /\ c.startChar > 0
           /\ upd.original[1].lineNumber - 1 = c.startLine
           /\ upd.st.bookmarks[1].lineNumber = upd.original[1].lineNumber
           /\ 1 \notin UpdatedIds(upd.st)

\* C30: an edit with lineDelta < 0 and a bookmark (not flagged for removal)
\* whose 0-based line L lies within startLine..endLine while the
\* full-line-deletion condition fails: the edit does not flag the bookmark;
\* its line becomes max(1, startLine + 1), and it is emitted as an update
\* exactly when that differs from the line it had.  In particular a bookmark
\* on the end line of a deletion (an edit inserting no line break) that ends
\* at column 0 moves to startLine + 1 = oldLine + lineDelta.
C30_DeletionFallbackClampsToStart ==
    [][(upd.pc = "run" /\ upd.todo # <<>>) =>
          LET c       == Head(upd.todo)
              emitted == {upd'.st.updatedBookmarks[j] :
                             j \in (Len(upd.st.updatedBookmarks) + 1)
                                   ..Len(upd'.st.updatedBookmarks)}
              target  == IF c.startLine + 1 >= 1 THEN c.startLine + 1 ELSE 1
          IN  \A i \in 1..Len(upd.st.bookmarks) :
                LET b == upd.st.bookmarks[i]
                    L == b.lineNumber - 1
                IN  (/\ b.id \notin RemovedIds(upd.st)
                     /\ LineDeltaOf(c) < 0
                     /\ c.startLine <= L /\ L <= c.endLine
                     /\ ~FullLineDeletionOf(c, L)) =>
                        /\ b.id \notin RemovedIds(upd'.st)
                        /\ upd'.st.bookmarks[i].lineNumber = target
                        /\ (b.id \in emitted) <=> (target # b.lineNumber)
                        /\ (/\ L = c.endLine /\ c.endChar = 0
                            /\ \A k \in 1..Len(c.text) : c.text[k] # "\n") =>
                              /\ upd'.st.bookmarks[i].lineNumber = c.startLine + 1
                              /\ c.startLine + 1 = b.lineNumber + LineDeltaOf(c)
                              /\ b.id \in emitted
    ]_vars

\* C30 witness: a deletion from column 0 that ends at column 0 two lines
\* further down has been applied: the bookmark on its end line has moved up
\* to startLine + 1 and is the only one emitted, the bookmark inside the
\* deleted lines is flagged for removal.
C30_Witness ==
    /\ upd.pc = "run" /\ upd.todo = <<>>
    /\ Len(upd.changes) = 1
    /\ LET c == upd.changes[1]
       IN  /\ c.text = <<>>
           /\ c.startChar = 0 /\ c.endChar = 0
           /\ c.endLine = c.startLine + 2
           /\ upd.original[1].lineNumber - 1 = c.endLine
           /\ upd.original[2].lineNumber - 1 = c.startLine + 1
           /\ upd.st.bookmarks[1].lineNumber = c.startLine + 1
           /\ upd.st.updatedBookmarks = <<1>>
           /\ RemovedIds(upd.st) = {2}

\* a deletion that starts after column 0 on the bookmark's own line: the
\* fallback resolves to the line the bookmark is on and nothing is emitted
C30_WitnessNotEmitted ==
    /\ upd.pc = "run" /\ upd.todo = <<>>
    /\ Len(upd.changes) = 1
    /\ LET c == upd.changes[1]
       IN  /\ LineDeltaOf(c) < 0
           /\ c.startChar > 0
           /\ upd.original[1].lineNumber - 1 = c.startLine
           /\ upd.st.bookmarks[1].lineNumber = upd.original[1].lineNumber
           /\ upd.st.updatedBookmarks = <<>> /\ upd.st.removedBookmarkIds = <<>>


-----------------------------------------------------------------------------
(* The updates list of a batch *)

\* C31: when updateBookmarkPositions returns, every bookmark in the updates
\* list is there exactly once and its line number differs from the one it had
\* before the batch (so a bookmark that ends on its original line is not in
\* the list).
C31_UpdatesListedOnceAndMoved ==
    upd.pc = "done" =>
        \A i \in 1..Len(upd.original) :
            LET id     == upd.original[i].id
                listed == {j \in 1..Len(upd.st.updatedBookmarks) :
                              upd.st.updatedBookmarks[j] = id}
            IN  /\ Cardinality(listed) <= 1
                /\ listed # {} =>
                      upd.st.bookmarks[i].lineNumber # upd.original[i].lineNumber


-----------------------------------------------------------------------------
(* The order in which a change event lists its edits *)

Reversed(s) == [i \in 1..Len(s) |-> s[Len(s) + 1 - i]]

\* C32: the result of a batch of non-overlapping edits (final line numbers,
\* updates and removals) is the same when the same edits are listed in
\* another order in the change event, edits that share a start line included.
\* A batch has at most two edits here, so the other order is the reversed one.
C32_ResultIndependentOfListingOrder ==
    upd.pc = "done" =>
        LET other == updateBookmarkPositions(Reversed(upd.changes), upd.original)
        IN  /\ \A i \in 1..Len(upd.original) :
                  other.bookmarks[i].lineNumber = upd.st.bookmarks[i].lineNumber
            /\ Range(other.updatedBookmarks) = UpdatedIds(upd.st)
            /\ Range(other.removedBookmarkIds) = RemovedIds(upd.st)


-----------------------------------------------------------------------------
(* One change notification at a time *)

\* C33: the processing of a change notification starts only when no earlier
\* notification is still being processed, and the notification whose
\* processing ends (and whose batch, if any, reaches the coalescer) is the
\* one delivered first among those in progress; so batches are scheduled in
\* delivery order and the pending batch is that of the latest notification.
C33_OneNotificationAtATime ==
    [][ /\ Len(handlers') > Len(handlers) => handlers = <<>>
        /\ Len(handlers') < Len(handlers) => handlers' = Tail(handlers)
      ]_vars


-----------------------------------------------------------------------------
(* A scheduled batch is committed *)

\* the callback of timer t has run to its end
Committed(t) ==
    /\ timers[t].status = "done"
    /\ timers[t].log = ExpectedLog(timers[t])
    /\ notified >= 1
    /\ debouncedUpdate[timers[t].filePath] = 0

\* C34: in the runs without dispose and without a failing storage call, a
\* batch scheduled for a file leads to its commit (the timer has fired, every
\* update and removal is issued, the notification invoked, the file without
\* an entry in debouncedUpdate), unless a later batch of the file replaces it.
C34_ScheduledBatchIsCommitted ==
    \A t \in 1..MaxEvents :
        (t \in 1..Len(timers) /\ timers[t].status = "armed")
            ~> (t \in 1..Len(timers)
                /\ (Committed(t) \/ timers[t].status = "cancelled"))

\* C34 witness: the batch scheduled last for its file, with an update and a
\* removal, is committed; nothing was disposed and no storage call failed.
C34_Witness ==
    /\ ~disposed /\ ~history.failed
    /\ \E t \in 1..Len(timers) :
          /\ Committed(t)
          /\ Len(timers[t].bookmarks) >= 1
          /\ Len(timers[t].removals) >= 1
          /\ \A u \in 1..Len(timers) : timers[u].filePath = timers[t].filePath => u <= t


-----------------------------------------------------------------------------
(* Order and distinctness of the bookmarks of a file *)

\* C35: two tracked bookmarks of the file with line(m1) < line(m2) before a
\* batch of non-overlapping edits, neither flagged for removal by the batch,
\* have line(m1) <= line(m2) after it.
C35_RelativeOrderPreserved ==
    upd.pc = "done" =>
        \A i, j \in 1..Len(upd.original) :
            (/\ upd.original[i].lineNumber < upd.original[j].lineNumber
             /\ upd.original[i].id \notin RemovedIds(upd.st)
             /\ upd.original[j].id \notin RemovedIds(upd.st))
                => upd.st.bookmarks[i].lineNumber <= upd.st.bookmarks[j].lineNumber

\* C36: when no two bookmarks of the file share a line number before a batch,
\* no two bookmarks that the batch does not flag for removal share a line
\* number after it.
C36_SurvivorsKeepDistinctLines ==
    upd.pc = "done" =>
        \A i, j \in 1..Len(upd.original) :
            (/\ i # j
             /\ upd.original[i].lineNumber # upd.original[j].lineNumber
             /\ upd.original[i].id \notin RemovedIds(upd.st)
             /\ upd.original[j].id \notin RemovedIds(upd.st))
                => upd.st.bookmarks[i].lineNumber # upd.st.bookmarks[j].lineNumber


-----------------------------------------------------------------------------
(* Storing an anchor and relocating by it *)

\* the length updateContentAnchor cuts the anchor to
storedAnchorLength == 50

\* BookmarkStorageService.updateBookmark with the fields updateContentAnchor
\* passes (lastKnownContent is not read by relocation and is left out)
updateBookmarkAnchor(bookmarks, bookmarkId, contentAnchor) ==
    IF bookmarkId \in DOMAIN bookmarks
    THEN [bookmarks EXCEPT ![bookmarkId].contentAnchor = contentAnchor,
                           ![bookmarkId].trackingEnabled = TRUE]
    ELSE bookmarks

\* The collections an anchor is stored into: bookmark 1 of f1 varies, bookmark
\* 2 of f2 is a tracked bookmark without anchor.
StoreStorages ==
    { [id \in 1..2 |->
          CASE id = 1 -> Bookmark(1, "f1", l, te, anchor)
            [] id = 2 -> Bookmark(2, "f2", 1, TRUE, <<>>)] :
      l \in 0..(MaxDocLines + 1), te \in BOOLEAN, anchor \in {<<>>, <<"a">>} }

InitStore ==
    /\ storage \in StoreStorages
    /\ handlers = <<>>
    /\ timers = <<>>
    /\ debouncedUpdate = [f \in Files |-> 0]
    /\ disposed = FALSE
    /\ notified = 0
    /\ burst = 0
    /\ history = [stored |-> {}, failed |-> {}]
    /\ upd = Idle
    /\ doc \in [lines : DocLines, anchorLength : AnchorLengths]
    /\ reloc = Idle

\* updateContentAnchor when the document is at hand and the write resolves: a
\* bookmark without line number or with tracking switched off returns at once,
\* a line outside the document stores nothing, otherwise the anchor of the
\* line's text is written with trackingEnabled.
UpdateContentAnchorCall(id) ==
    /\ LET bookmark  == storage[id]
           lineIndex == bookmark.lineNumber - 1
       IN  IF bookmark.lineNumber = 0 \/ bookmark.trackingEnabled = FALSE
           THEN /\ storage' = storage
                /\ history' = [history EXCEPT !.failed = @ \cup {id}]
           ELSE IF lineIndex >= 0 /\ lineIndex < Len(doc.lines)
                THEN /\ storage' = updateBookmarkAnchor(storage, id,
                                      generateAnchor(doc.lines[lineIndex + 1],
                                                     storedAnchorLength))
                     /\ history' = [history EXCEPT !.stored = @ \cup {id}]
                ELSE /\ storage' = storage
                     /\ history' = [history EXCEPT !.failed = @ \cup {id}]
    /\ UNCHANGED <<handlers, timers, debouncedUpdate, disposed, notified, burst,
                   upd, doc, reloc>>

\* updateContentAnchor when openTextDocument or the write rejects: the catch
\* logs and nothing is stored.
UpdateContentAnchorFails(id) ==
    /\ storage[id].lineNumber # 0 /\ storage[id].trackingEnabled # FALSE
    /\ history' = [history EXCEPT !.failed = @ \cup {id}]
    /\ UNCHANGED <<storage, handlers, timers, debouncedUpdate, disposed, notified,
                   burst, upd, doc, reloc>>

NextStore ==
    \/ \E id \in DOMAIN storage : UpdateContentAnchorCall(id)
    \/ \E id \in DOMAIN storage : UpdateContentAnchorFails(id)
    \/ \E id \in DOMAIN storage : RelocateByAnchorAlone(id)

SpecStore == InitStore /\ [][NextStore]_vars

\* C37: the anchor updateContentAnchor stored for a bookmark's line is the
\* anchor the relocation search computes for that line's text under the
\* configured anchor length, and relocating the bookmark while line text and
\* position are as they were when the anchor was stored answers with method
\* exact, unless the document cannot be opened.
C37_StoredAnchorRelocatesExact ==
    \A id \in history.stored :
        /\ storage[id].contentAnchor = lineAnchorAt(doc, storage[id].lineNumber)
        /\ (/\ reloc.pc = "returned"
            /\ reloc.results[1].id = id
            /\ reloc.queue[1] = storage[id]
            /\ (reloc.results[1].opened \/ storage[id].contentAnchor = <<>>))
               => reloc.results[1].result.method = "exact"


-----------------------------------------------------------------------------
(* The shape of a relocation result *)

WellFormedResult(r) ==
    /\ r.method \in {"exact", "fuzzy", "failed"}
    /\ r.success <=> r.method # "failed"
    /\ r.success <=> r.newLineNumber # 0
    /\ r.method = "exact" <=> RatioEq(r.confidence, Ratio(1, 1))
    /\ r.method = "fuzzy" =>
          /\ RatioGt(r.confidence, Ratio(4, 5))
          /\ RatioGt(Ratio(1, 1), r.confidence)

\* C38: every result of relocateByAnchor, recorded by a relocation of a file
\* or returned to a direct caller, is well formed: success is true exactly
\* when the method is not failed and exactly when newLineNumber is present,
\* the method is exact exactly when the confidence is 1, and a fuzzy result
\* has a confidence above 0.8 and below 1.
C38_RelocationResultsWellFormed ==
    reloc.pc # "idle" =>
        \A i \in 1..Len(reloc.results) : WellFormedResult(reloc.results[i].result)

\* a fuzzy result has been recorded
C38_Witness ==
    /\ reloc.pc # "idle"
    /\ \E i \in 1..Len(reloc.results) : reloc.results[i].result.method = "fuzzy"

\* a search that found nothing good enough reports the best confidence seen
C38_WitnessFailedWithConfidence ==
    /\ reloc.pc # "idle"
    /\ \E i \in 1..Len(reloc.results) :
          /\ reloc.results[i].result.method = "failed"
          /\ reloc.results[i].result.confidence.num > 0

\* an exact result has been recorded
C38_WitnessExact ==
    /\ reloc.pc # "idle"
    /\ \E i \in 1..Len(reloc.results) : reloc.results[i].result.method = "exact"


-----------------------------------------------------------------------------
(* Coalescing is per file *)

\* the timers of one file, each under its handle
FileTimers(ts, g) ==
    [t \in {u \in 1..Len(ts) : ts[u].filePath = g} |-> ts[t]]

\* a step leaves the map entry, the timers and the pending batches of every
\* file other than f as they are
OthersUntouched(f) ==
    \A g \in Files \ {f} :
        /\ debouncedUpdate'[g] = debouncedUpdate[g]
        /\ FileTimers(timers', g) = FileTimers(timers, g)

\* C39: a handler that schedules or replaces the batch of a file, and a timer
\* callback of a file that fires, commits a write, fails or finishes, leave
\* the map entry, the timers and the pending batches of every other file
\* unchanged.
C39_CoalescingIsPerFile ==
    [][ /\ \A i \in 1..Len(handlers) :
              ResumeHandler(i) => OthersUntouched(handlers[i].filePath)
        /\ \A t \in 1..Len(timers) :
              (TimerFires(t) \/ CommitWrite(t) \/ CommitWriteFails(t) \/ CommitNext(t))
                  => OthersUntouched(timers[t].filePath) ]_vars

\* a batch of f1 has been replaced while a batch of f2, scheduled before the
\* replacement, is still pending under its map entry
C39_Witness ==
    \E a, b, c \in 1..Len(timers) :
        /\ a < c /\ b < c
        /\ timers[a].filePath = "f2" /\ timers[a].status = "armed"
        /\ debouncedUpdate["f2"] = a
        /\ timers[b].filePath = "f1" /\ timers[b].status = "cancelled"
        /\ timers[c].filePath = "f1"

\* a batch of f1 has been committed, and one has failed, while a batch of f2
\* is pending
C39_WitnessCommitted ==
    \E a, b \in 1..Len(timers) :
        /\ timers[a].filePath = "f2" /\ timers[a].status = "armed"
        /\ debouncedUpdate["f2"] = a
        /\ a < b
        /\ timers[b].filePath = "f1" /\ timers[b].status \in {"done", "failed"}

=============================================================================
